---- MODULE Spec2Model ----
(***************************************************************************)
(* Model of the NixosConfiguration reconciler of homystack/NIO.             *)
(*                                                                         *)
(* One NixosConfiguration that references one Machine.  The reconcile      *)
(* entry point reconcile_nixos_configuration is registered both as the     *)
(* change handler (create/update/resume/delete) and as a timer, so two     *)
(* tasks can run it.  A task is suspended only where the code awaits real  *)
(* I/O: the SSH probe in check_machine_discoverable and the subprocess in  *)
(* apply_nixos_configuration; everything between two such points is one    *)
(* action.  Timestamps (lastAppliedTime, lastTransitionTime) are left out. *)
(***************************************************************************)
EXTENDS Integers, Sequences, FiniteSets, TLC

\* ------------------------------------------------------------------ bounds
MaxCommit == 2          \* the remote head takes the values 1..MaxCommit
MaxFiles == 1           \* additionalFiles has at most MaxFiles entries
MaxTicks == 1           \* clock advances observed while one apply runs
MaxAttempts == 3        \* max_attempts of retry_with_backoff is in 0..MaxAttempts
MaxDelay == 3           \* initial_delay and max_delay are in 1..MaxDelay seconds
JitterSteps == 2        \* random() takes the values q / (2 * JitterSteps)
MaxHostLen == 2         \* hostnames have 1..MaxHostLen characters
MaxEntries == 2         \* the known_hosts file holds at most MaxEntries lines
MaxArgLen == 2          \* user-given strings of the command have 0..MaxArgLen characters
MaxItems == 4           \* names under <base>/<namespace>/<configName>/
MaxHashFiles == 2       \* additionalFiles lists given to the hash have 0..MaxHashFiles entries
MaxNameLen == 2         \* file names in a hashed directory have 1..MaxNameLen characters
MaxContentLen == 1      \* file contents have 0..MaxContentLen bytes
MaxTreeFiles == 2       \* a hashed directory holds 0..MaxTreeFiles files
MaxNameParts == 2       \* owner and repo of a flake reference have 1..MaxNameParts pieces

\* --------------------------------------------------------------- constants
NIXOS_APPLY_TIMEOUT == 3600
exponential_base == 2   \* default of retry_with_backoff
DefaultPort == 22       \* default of trust_on_first_use
CustomPort == 2222      \* a non-default SSH port
MaxHostnameLen == 253   \* validate_hostname
MaxUsernameLen == 32    \* validate_ssh_username
MaxPathLen == 4096      \* validate_path, default of max_length

NoCommit == 0           \* Python None in a commit field
EmptyHash == <<>>       \* the empty string returned for "no hash"
FileEntries == {1}      \* additionalFiles entries the user chooses from
MachineName == "mach-a"
ConfigName == "cfg-a"
OtherConfigName == "cfg-b"  \* a second Configuration with the same machineRef

Tasks == {"handler", "timer"}

FilesSpecs == UNION {[1..n -> FileEntries] : n \in 0..MaxFiles}

VARIABLES
    cfgSpec,             \* spec of the NixosConfiguration
    deletionTimestamp,   \* metadata.deletionTimestamp is set
    cfgStatus,           \* status of the NixosConfiguration (field -> value)
    machineSpec,         \* spec of the Machine
    machineStatus,       \* status of the Machine (field -> value)
    remoteHead,          \* commit the remote repository's HEAD points at
    workdir,             \* HEAD of the checkout at the workdir path, 0 if none
    keyFiles,            \* temporary SSH key files on disk: <<task, user>>
    released,            \* the delete handler returned without error
    outcome,             \* how the reconcile that ended in the last step ended
    pc,                  \* per task: "idle", "probing", "applying"
    body,                \* per task: the body a change handler was called with
    deletion_timestamp,  \* per task: local of reconcile_nixos_configuration
    is_discoverable,     \* per task: local, result of the probe
    actual_commit_hash,  \* per task: local, HEAD of the checkout
    config_hash,         \* per task: local, directory hash after injection
    additional_files_hash, \* per task: local
    current_has_full_install, \* per task: local
    needs_full_install,  \* per task: local
    cmd,                 \* per task: the apply command that was spawned
    elapsed,             \* per task: seconds the subprocess has been running
    max_attempts,        \* retry_with_backoff: parameter
    initial_delay,       \* retry_with_backoff: parameter, seconds
    max_delay,           \* retry_with_backoff: parameter, seconds
    jitter,              \* retry_with_backoff: parameter
    attempt,             \* retry_with_backoff: loop variable
    last_exception,      \* retry_with_backoff: local
    delay,               \* retry_with_backoff: local, in 1/(2*JitterSteps) s
    history,             \* outcomes of the calls of func made so far
    retry_result,        \* how retry_with_backoff ended and with what
    rpc,                 \* position inside retry_with_backoff
    known_hosts_file,    \* lines of the file at known_hosts_path
    known_hosts_exists,  \* known_hosts_path.exists()
    cleared,             \* the call of clear_host made in the last step
    tofu,                \* the call of trust_on_first_use made in the last step
    ssh,                 \* the SSH connection attempted in the last step
    apply_args,          \* apply_nixos_configuration: values taken from the specs
    shell_cmd,           \* text given to asyncio.create_subprocess_shell
    secret_args,         \* the Machine whose secret reference is resolved
    secret_read,         \* the call of get_secret_data made in the last step
    base_dir_items,      \* <base>/<namespace>/<configName>/: name -> kind
    current_path,        \* workdir_path of the reconcile
    gc_pc,               \* position at the end of a successful reconcile
    pure_fn,             \* the pure function applied, "none" before the call
    pure_args,           \* its arguments
    pure_ret,            \* the values it returned
    clone_pc,            \* position of the reconcile or job around clone_git_repo
    origin_head,         \* commit the remote's default branch points at
    new_commit_hash,     \* commit resolved from the flake reference
    target_path,         \* target_path given to clone_git_repo
    work_dir,            \* the directory work_dir of clone_git_repo names
    clone_ret,           \* how clone_git_repo ended
    applied_commit,      \* appliedCommit written on success
    create_pc            \* position of the Machine's on_machine_create handler

env == <<cfgSpec, deletionTimestamp, machineSpec, remoteHead>>

locals == <<body, deletion_timestamp, is_discoverable, actual_commit_hash, config_hash,
            additional_files_hash, current_has_full_install,
            needs_full_install, cmd, elapsed>>

reconciler == <<cfgSpec, deletionTimestamp, cfgStatus, machineSpec, machineStatus,
                remoteHead, workdir, keyFiles, released, outcome, pc, body,
                deletion_timestamp, is_discoverable, actual_commit_hash, config_hash,
                additional_files_hash, current_has_full_install,
                needs_full_install, cmd, elapsed>>

retry_vars == <<max_attempts, initial_delay, max_delay, jitter, attempt,
                last_exception, delay, history, retry_result, rpc>>

\* The library functions the reconcile steps do not enter.
kh_vars == <<known_hosts_file, known_hosts_exists, cleared, tofu, ssh>>

apply_vars == <<apply_args, shell_cmd>>

secret_vars == <<secret_args, secret_read>>

gc_vars == <<base_dir_items, current_path, gc_pc>>

pure_vars == <<pure_fn, pure_args, pure_ret>>

clone_vars == <<clone_pc, origin_head, new_commit_hash, target_path, work_dir,
                clone_ret, applied_commit>>

create_vars == <<create_pc>>

lib == <<retry_vars, kh_vars, apply_vars, secret_vars, gc_vars, pure_vars, clone_vars, create_vars>>

\* What the steps of one component leave alone.
not_retry == <<reconciler, kh_vars, apply_vars, secret_vars, gc_vars, pure_vars, clone_vars, create_vars>>
not_kh == <<reconciler, retry_vars, apply_vars, secret_vars, gc_vars, pure_vars, clone_vars, create_vars>>
not_apply == <<reconciler, retry_vars, kh_vars, secret_vars, gc_vars, pure_vars, clone_vars, create_vars>>
not_secret == <<reconciler, retry_vars, kh_vars, apply_vars, gc_vars, pure_vars, clone_vars, create_vars>>
not_pure == <<reconciler, retry_vars, kh_vars, apply_vars, secret_vars, gc_vars, clone_vars, create_vars>>
not_clone == <<reconciler, retry_vars, kh_vars, apply_vars, secret_vars, gc_vars, pure_vars, create_vars>>
not_gc == <<reconciler, retry_vars, kh_vars, apply_vars, secret_vars, pure_vars, clone_vars, create_vars>>

vars == <<reconciler, lib>>

\* ------------------------------------------------------------ K8s adapter
\* dict.get(key, default)
Get(d, k, default) == IF k \in DOMAIN d THEN d[k] ELSE default

\* The status PATCH: fields of `updates` replace, fields sent as null vanish.
MergePatch(status, updates, nulls) ==
    [k \in ((DOMAIN status) \ nulls) \cup DOMAIN updates |->
        IF k \in DOMAIN updates THEN updates[k] ELSE status[k]]

update_configuration_status(status, updates, nulls) ==
    MergePatch(status, updates, nulls)

update_machine_status(status, updates, nulls) ==
    MergePatch(status, updates, nulls)

\* The status fields reconcile_nixos_configuration reads from the body.
StatusRead == {"appliedCommit", "additionalFilesHash", "fullDiskInstallCompleted"}

Restrict(d, keys) == [k \in (DOMAIN d) \cap keys |-> d[k]]

Condition(status, reason) ==
    <<[type |-> "Applied", status |-> status, reason |-> reason]>>

NoCmd == [tool |-> "none", flake |-> "none"]

NoBody == [status |-> <<>>, spec |-> <<>>]

\* ------------------------------------------------------------ pure helpers
\* SHA-256 is modelled as injective: the digest is the absorbed content.
get_additional_files_hash(files) ==
    IF files = <<>> THEN EmptyHash ELSE <<files[Len(files)]>>

\* Directory hash of the checkout after injection of the additional files.
inject_additional_files(commit, files) == <<commit>> \o files

TypeOK ==
    /\ pc \in [Tasks -> {"idle", "probing", "applying"}]
    /\ create_pc \in {"idle", "probing", "done"}
    /\ remoteHead \in 1..MaxCommit
    /\ workdir \in 0..MaxCommit
    /\ released \in BOOLEAN
    /\ deletionTimestamp \in BOOLEAN

\* The operator takes over the resources as it finds them (on.create and
\* on.resume): a Configuration either has no status yet or, where a full
\* install was requested, may already carry the latch the reconcile reads.
ReconcilerInit ==
    /\ cfgSpec \in [fullInstall : BOOLEAN, onRemoveFlake : BOOLEAN,
                    additionalFiles : FilesSpecs]
    /\ deletionTimestamp = FALSE
    /\ cfgStatus \in {<<>>} \cup
           (IF cfgSpec.fullInstall
            THEN {[fullDiskInstallCompleted |-> TRUE]} ELSE {})
    /\ machineSpec \in [sshKeySecretRef : BOOLEAN]
    /\ machineStatus = <<>>
    /\ remoteHead = 1
    /\ workdir = 0
    /\ keyFiles = {}
    /\ released = FALSE
    /\ outcome = "none"
    /\ pc = [t \in Tasks |-> "idle"]
    /\ body = [t \in Tasks |-> NoBody]
    /\ deletion_timestamp = [t \in Tasks |-> FALSE]
    /\ is_discoverable = [t \in Tasks |-> FALSE]
    /\ actual_commit_hash = [t \in Tasks |-> NoCommit]
    /\ config_hash = [t \in Tasks |-> EmptyHash]
    /\ additional_files_hash = [t \in Tasks |-> EmptyHash]
    /\ current_has_full_install = [t \in Tasks |-> FALSE]
    /\ needs_full_install = [t \in Tasks |-> FALSE]
    /\ cmd = [t \in Tasks |-> NoCmd]
    /\ elapsed = [t \in Tasks |-> 0]

\* ------------------------------------------------------ retry_with_backoff
\* What one call of func does: it returns, raises an exception of the classes
\* in `exceptions`, or raises another one.
Retryable == {"E1", "E2"}
NotRetryable == {"X"}
CallOutcomes == {"ok"} \cup Retryable \cup NotRetryable

None == "None"

Min(a, b) == IF a <= b THEN a ELSE b

RECURSIVE Pow(_, _)
Pow(b, n) == IF n = 0 THEN 1 ELSE b * Pow(b, n - 1)

\* range(1, max_attempts + 1)
InRange(a, m) == 1 <= a /\ a <= m

\* Mutant: the first exception is kept.
Remember_first(last, e) == IF last = None THEN e ELSE last

\* last_exception = e
Remember(last, e) == e

\* min(initial_delay * exponential_base ** (attempt - 1), max_delay)
BackoffDelay(initial, a, maxd) ==
    Min(initial * Pow(exponential_base, a - 1), maxd)

\* Values of 0.5 + random.random(), as numerators over 2 * JitterSteps.
JitterFactors == JitterSteps .. (3 * JitterSteps - 1)

\* delay * (0.5 + random.random()) where jitter is set, delay otherwise; the
\* result is in units of 1 / (2 * JitterSteps) second.
SleepDelay(d, jit, f) == IF jit THEN d * f ELSE d * (2 * JitterSteps)

RetryIdle ==
    /\ max_attempts = 0 /\ initial_delay = 1 /\ max_delay = 1 /\ jitter = FALSE
    /\ attempt = 0 /\ last_exception = None /\ delay = 0
    /\ history = <<>> /\ retry_result = <<"none", None>> /\ rpc = "idle"

\* retry_with_backoff(func, max_attempts, initial_delay, max_delay, jitter)
\* is entered: the loop variable is at its first value.
RetryEntered ==
    /\ max_attempts \in 0..MaxAttempts
    /\ initial_delay \in 1..MaxDelay
    /\ max_delay \in 1..MaxDelay
    /\ jitter \in BOOLEAN
    /\ attempt = 1 /\ last_exception = None /\ delay = 0
    /\ history = <<>> /\ retry_result = <<"none", None>> /\ rpc = "loop"

\* One pass of the loop body: func is called.  A result is returned at once;
\* an exception outside `exceptions` propagates; one inside is remembered and
\* either ends the loop (last attempt) or is followed by a sleep.
RetryCall(o, f) ==
    /\ rpc = "loop" /\ InRange(attempt, max_attempts)
    /\ history' = Append(history, o)
    /\ IF o = "ok"
       THEN /\ rpc' = "returned"
            /\ retry_result' = <<"returned", Len(history) + 1>>
            /\ UNCHANGED <<last_exception, delay>>
       ELSE IF o \in NotRetryable
       THEN /\ rpc' = "raised"
            /\ retry_result' = <<o, None>>
            /\ UNCHANGED <<last_exception, delay>>
       ELSE /\ last_exception' = Remember(last_exception, o)
            /\ retry_result' = retry_result
            /\ IF attempt = max_attempts
               THEN rpc' = "break" /\ delay' = delay
               ELSE /\ rpc' = "sleep"
                    /\ delay' = SleepDelay(
                           BackoffDelay(initial_delay, attempt, max_delay),
                           jitter, f)
    /\ UNCHANGED <<max_attempts, initial_delay, max_delay, jitter, attempt>>
    /\ UNCHANGED not_retry

\* await asyncio.sleep(delay) returns and the loop goes to its next value.
RetrySleep ==
    /\ rpc = "sleep"
    /\ attempt' = attempt + 1
    /\ rpc' = "loop"
    /\ UNCHANGED <<max_attempts, initial_delay, max_delay, jitter,
                   last_exception, delay, history, retry_result>>
    /\ UNCHANGED not_retry

\* The loop is left without a result:
\* raise RetryExhaustedError(...) from last_exception
RetryExhausted ==
    /\ \/ rpc = "break"
       \/ rpc = "loop" /\ ~InRange(attempt, max_attempts)
    /\ rpc' = "raised"
    /\ retry_result' = <<"RetryExhaustedError", last_exception>>
    /\ UNCHANGED <<max_attempts, initial_delay, max_delay, jitter, attempt,
                   last_exception, delay, history>>
    /\ UNCHANGED not_retry

\* ------------------------------------------------------ known_hosts store
\* Text is a sequence of characters.
HostChars == {"a", "b"}

Hosts == UNION {[1..n -> HostChars] : n \in 1..MaxHostLen}

Ports == {DefaultPort, CustomPort}

PublicKeys == {<<"K">>, <<"L">>}

KeyType == <<"T">>

KnownHostsPath == "/tmp/nio-ssh-known-hosts/known_hosts"

DigitChars == <<"0", "1", "2", "3", "4", "5", "6", "7", "8", "9">>

\* str(n) of a natural number
RECURSIVE Str(_)
Str(n) ==
    IF n < 10 THEN <<DigitChars[n + 1]>>
    ELSE Str(n \div 10) \o <<DigitChars[(n % 10) + 1]>>

\* f"[{hostname}]:{port}"
Bracket(hostname, port) == <<"[">> \o hostname \o <<"]", ":">> \o Str(port)

\* The first field of a line: the plain host, or the bracket form that is
\* used for a port other than the default one.
EntryNames == Hosts \cup {Bracket(h, CustomPort) : h \in Hosts}

\* f"{hostname} {key_type} {public_key}\n"
Entry(line) == line.name \o <<" ">> \o line.key_type \o <<" ">> \o line.key \o <<"\n">>

\* f.read()
RECURSIVE Content(_)
Content(file) ==
    IF file = <<>> THEN <<>> ELSE Entry(Head(file)) \o Content(Tail(file))

\* Python's `s in t` on strings
IsSubstring(s, t) ==
    \E i \in 0..(Len(t) - Len(s)) : SubSeq(t, i + 1, i + Len(s)) = s

\* KnownHostsManager.add_host_key: the file after the call
add_host_key(file, hostname, key_type, public_key) ==
    LET line == [name |-> hostname, key_type |-> key_type, key |-> public_key]
    IN IF IsSubstring(Entry(line), Content(file)) THEN file
       ELSE Append(file, line)

\* KnownHostsManager.trust_on_first_use: the value returned
trust_on_first_use(exists, file, hostname, port) ==
    IF ~exists THEN TRUE
    ELSE IF \/ IsSubstring(hostname, Content(file))
            \/ IsSubstring(Bracket(hostname, port), Content(file))
         THEN FALSE ELSE TRUE

\* str.startswith
StartsWith(t, s) == Len(s) <= Len(t) /\ SubSeq(t, 1, Len(s)) = s

\* Mutant: the host name is matched without the blank that ends it.
LinePrefixes_noblank(hostname) == {hostname, <<"[">> \o hostname \o <<"]", ":">>}

\* hostname + " " and f"[{hostname}]:"
LinePrefixes(hostname) ==
    {hostname \o <<" ">>, <<"[">> \o hostname \o <<"]", ":">>}

\* KnownHostsManager.clear_host: the lines written back
RECURSIVE clear_host(_, _)
clear_host(file, hostname) ==
    IF file = <<>> THEN <<>>
    ELSE IF \E prefix \in LinePrefixes(hostname) :
                StartsWith(Entry(Head(file)), prefix)
         THEN clear_host(Tail(file), hostname)
         ELSE <<Head(file)>> \o clear_host(Tail(file), hostname)

\* The lines of the host: those whose first field is the host, or the
\* bracket form of the host with a port.
EntriesFor(file, hostname) ==
    {i \in 1..Len(file) :
        \E port \in Ports : file[i].name \in {hostname, Bracket(hostname, port)}}

\* asyncssh.connect with the known_hosts option: None turns host-key
\* validation off, a file makes the server's key have to match a line of
\* the host in it.
HostKeyAccepted(file, known_hosts, hostname, server_key) ==
    \/ known_hosts = None
    \/ \E i \in 1..Len(file) :
           file[i].name = hostname /\ file[i].key = server_key

NoTofu == [hostname |-> <<>>, port |-> 0, first |-> FALSE, called |-> FALSE]

NoClear == [hostname |-> <<>>, removed |-> 0, called |-> FALSE]

NoSsh == [by |-> "none", hostname |-> <<>>, known_hosts |-> None,
          connected |-> FALSE]

\* KnownHostsManager.__init__: the file is created empty.
KnownHostsManager_init ==
    /\ known_hosts_file = <<>>
    /\ known_hosts_exists = TRUE
    /\ cleared = NoClear
    /\ tofu = NoTofu
    /\ ssh = NoSsh

CallAddHostKey(hostname, public_key) ==
    /\ Len(known_hosts_file) < MaxEntries
    /\ known_hosts_file' =
           add_host_key(known_hosts_file, hostname, KeyType, public_key)
    /\ known_hosts_exists' = TRUE
    /\ tofu' = NoTofu /\ ssh' = NoSsh /\ cleared' = NoClear
    /\ UNCHANGED not_kh

CallTrustOnFirstUse(hostname, port) ==
    /\ tofu' = [hostname |-> hostname, port |-> port, called |-> TRUE,
                first |-> trust_on_first_use(known_hosts_exists,
                              known_hosts_file, hostname, port)]
    /\ ssh' = NoSsh /\ cleared' = NoClear
    /\ UNCHANGED <<not_kh, known_hosts_file, known_hosts_exists>>

\* clear_host returns at once when the file does not exist; otherwise it
\* reads the lines and writes back those it keeps.
CallClearHost(hostname) ==
    /\ known_hosts_file' =
           IF known_hosts_exists THEN clear_host(known_hosts_file, hostname)
           ELSE known_hosts_file
    /\ cleared' = [hostname |-> hostname, called |-> TRUE,
                   removed |-> Len(known_hosts_file) - Len(known_hosts_file')]
    /\ tofu' = NoTofu /\ ssh' = NoSsh
    /\ UNCHANGED <<not_kh, known_hosts_exists>>

\* The file is deleted from outside the operator.
UnlinkKnownHosts ==
    /\ known_hosts_exists
    /\ known_hosts_exists' = FALSE
    /\ known_hosts_file' = <<>>
    /\ tofu' = NoTofu /\ ssh' = NoSsh /\ cleared' = NoClear
    /\ UNCHANGED not_kh

\* One connection attempt: the host answers or not, and presents a key.
\* Nothing on these paths writes the known_hosts file.
Connect(by, known_hosts, hostname, reachable, server_key) ==
    /\ ssh' = [by |-> by, hostname |-> hostname, known_hosts |-> known_hosts,
               connected |-> reachable /\ HostKeyAccepted(known_hosts_file,
                                 known_hosts, hostname, server_key)]
    /\ tofu' = NoTofu /\ cleared' = NoClear
    /\ UNCHANGED <<not_kh, known_hosts_file, known_hosts_exists>>

\* check_machine_discoverable: ssh_config has "known_hosts": None
ProbeConnect(hostname, reachable, server_key) ==
    Connect("check_machine_discoverable", None, hostname, reachable, server_key)

\* scan_machine_hardware: ssh_config has "known_hosts": None
ScanConnect(hostname, reachable, server_key) ==
    Connect("scan_machine_hardware", None, hostname, reachable, server_key)

\* establish_ssh_connection: known_hosts is the path of the store
establish_ssh_connection(hostname, reachable, server_key) ==
    Connect("establish_ssh_connection", KnownHostsPath, hostname, reachable,
            server_key)

\* ------------------------------------------------- input_validation, apply
\* Characters of the user-given strings: a letter, a dot and the shell's
\* command separator.
ArgChars == {"r", ".", ";"}

ArgStrings == UNION {[1..n -> ArgChars] : n \in 0..MaxArgLen}

Alnum == {"r"}

\* re.match(r"^[a-zA-Z0-9_\-]+$", username)
UsernameChars == Alnum \cup {"_", "-"}

\* safe_pattern of validate_hostname: first character, then the others
HostnameFirst == Alnum \cup {"["}
HostnameRest == Alnum \cup {"-", ".", ":", "[", "]"}

\* dangerous_patterns of validate_hostname
HostnameDangerous ==
    {";", "$", "BACKTICK", "|", "&", ">", "<", "(", ")", "{", "}", "\n", "\r"}

\* dangerous_chars of validate_path, and the null byte
PathDangerous == {";", "$", "BACKTICK", "|", "&", "\n", "\r", "NUL"}

Chars(str) == {str[i] : i \in 1..Len(str)}

\* validate_hostname does not raise
validate_hostname(hostname) ==
    /\ hostname # <<>>
    /\ Len(hostname) <= MaxHostnameLen
    /\ hostname[1] \in HostnameFirst
    /\ Chars(Tail(hostname)) \subseteq HostnameRest
    /\ Chars(hostname) \cap HostnameDangerous = {}

\* validate_ssh_username does not raise
validate_ssh_username(username) ==
    /\ username # <<>>
    /\ Len(username) <= MaxUsernameLen
    /\ Chars(username) \subseteq UsernameChars

\* validate_path does not raise
validate_path(path) ==
    /\ path # <<>>
    /\ Len(path) <= MaxPathLen
    /\ Chars(path) \cap PathDangerous = {}

\* " ".join(cmd_parts)
RECURSIVE Join(_)
Join(parts) ==
    IF parts = <<>> THEN <<>>
    ELSE IF Len(parts) = 1 THEN Head(parts)
    ELSE Head(parts) \o <<" ">> \o Join(Tail(parts))

\* config_path of apply_nixos_configuration
ConfigPath(subdir) ==
    IF subdir # <<>> THEN <<"<repo_path>", "/">> \o subdir ELSE <<"<repo_path>">>

\* cmd of apply_nixos_configuration: the fixed pieces are one element each,
\* the values of the specs are interpolated character by character.
ComposeCommand(args) ==
    IF args.needs_full_install
    THEN Join(<< <<"nix --extra-experimental-features 'nix-command flakes'">>,
                 <<"run github:nix-community/nixos-anywhere --">>,
                 <<"--target-host", " ">> \o args.ssh_user \o <<"@">>
                     \o args.target_host,
                 <<"--flake", " ">> \o ConfigPath(args.configurationSubdir)
                     \o args.flake >>)
    ELSE Join(<< <<"nix --extra-experimental-features 'nix-command flakes'">>,
                 <<"shell nixpkgs#nixos-rebuild --command">>,
                 <<"nixos-rebuild switch">>,
                 <<"--flake", " ">> \o ConfigPath(args.configurationSubdir)
                     \o args.flake,
                 <<"--target-host", " ">> \o args.ssh_user \o <<"@">>
                     \o args.target_host >>)

NoArgs == [ssh_user |-> <<>>, target_host |-> <<>>, flake |-> <<>>,
           configurationSubdir |-> <<>>, needs_full_install |-> FALSE]

ApplyIdle == apply_args = NoArgs /\ shell_cmd = <<>>

\* apply_nixos_configuration is entered with values of the Machine and the
\* NixosConfiguration specs; sshUser, hostname and flake are required fields.
ApplyEntered ==
    /\ apply_args \in [ssh_user : ArgStrings, target_host : ArgStrings \ {<<>>},
                       flake : ArgStrings \ {<<>>},
                       configurationSubdir : ArgStrings,
                       needs_full_install : BOOLEAN]
    /\ shell_cmd = <<>>

\* The command is composed and handed to the shell.
SpawnShell ==
    /\ shell_cmd = <<>>
    /\ shell_cmd' = ComposeCommand(apply_args)
    /\ UNCHANGED <<apply_args, not_apply>>

\* -------------------------------------------------- secret references
Namespaces == {"default", "prod", "dev"}

\* A key that a dict does not have
Absent == "absent"

SecretRefKinds == {"sshKeySecretRef", "sshPasswordSecretRef"}

\* dict.get("namespace", default) on a dict whose namespace may be absent
GetNamespace(field, default) == IF field = Absent THEN default ELSE field

\* check_machine_discoverable and scan_machine_hardware:
\* machine_spec[ref].get("namespace", "default")
ProbeSecretNamespace(machine) == GetNamespace(machine.ref_namespace, "default")

\* apply_nixos_configuration:
\* ssh_key_ref.get("namespace", machine_spec.get("namespace", "default"))
ApplySecretNamespace(machine) ==
    GetNamespace(machine.ref_namespace,
                 GetNamespace(machine.spec_namespace, "default"))

NoMachine == [namespace |-> "default", spec_namespace |-> Absent,
              ref |-> "sshKeySecretRef", ref_namespace |-> Absent]

NoRead == [by |-> "none", namespace |-> Absent]

SecretIdle == secret_args = NoMachine /\ secret_read = NoRead

\* A Machine in some namespace whose spec carries a secret reference, with
\* or without a namespace of its own; spec.namespace is a field the apply
\* step looks at.
SecretEntered ==
    /\ secret_args \in [namespace : Namespaces,
                        spec_namespace : Namespaces \cup {Absent},
                        ref : SecretRefKinds,
                        ref_namespace : Namespaces \cup {Absent}]
    /\ secret_read = NoRead

ReadSecret(by, namespace) ==
    /\ secret_read' = [by |-> by, namespace |-> namespace]
    /\ UNCHANGED <<secret_args, not_secret>>

ProbeReadsSecret ==
    ReadSecret("check_machine_discoverable", ProbeSecretNamespace(secret_args))

ScanReadsSecret ==
    ReadSecret("scan_machine_hardware", ProbeSecretNamespace(secret_args))

\* The apply step reads the key reference only.
ApplyReadsSecret ==
    /\ secret_args.ref = "sshKeySecretRef"
    /\ ReadSecret("apply_nixos_configuration", ApplySecretNamespace(secret_args))

\* ------------------------------------------------------ workdir cleanup
\* Names under the directory of one Configuration: a workdir <repo>@<commit>
\* of some version, or another file.
ItemNames == 1..MaxItems

ItemKinds == {"absent", "dir", "file"}

\* shutil.rmtree(path, ignore_errors=True)
rmtree(items, name) == [items EXCEPT ![name] = "absent"]

\* garbage_collect_old_versions: every directory other than current_path
\* is removed.
garbage_collect_old_versions(items, current) ==
    [n \in DOMAIN items |->
        IF n # current /\ items[n] = "dir" THEN "absent" ELSE items[n]]

GcIdle ==
    /\ base_dir_items = [n \in ItemNames |-> "absent"]
    /\ current_path = 1
    /\ gc_pc = "idle"

\* The apply of a reconcile has succeeded and the statuses are patched; the
\* workdir of the reconcile exists (get_workdir_path makes it), next to
\* whatever earlier reconciles have left.
GcEntered ==
    /\ base_dir_items \in [ItemNames -> ItemKinds]
    /\ current_path \in ItemNames
    /\ base_dir_items[current_path] = "dir"
    /\ gc_pc = "applied"

CollectGarbage ==
    /\ gc_pc = "applied"
    /\ base_dir_items' = garbage_collect_old_versions(base_dir_items, current_path)
    /\ gc_pc' = "collected"
    /\ UNCHANGED <<current_path, not_gc>>

\* finally: shutil.rmtree(repo_path, ignore_errors=True), where repo_path is
\* the target_path given to clone_git_repo, the workdir of the reconcile.
FinallyRemove ==
    /\ gc_pc = "collected"
    /\ base_dir_items' = rmtree(base_dir_items, current_path)
    /\ gc_pc' = "returned"
    /\ UNCHANGED <<current_path, not_gc>>

\* ------------------------------------------------------------ clone
CloneCommits == {"c1", "c2"}

\* What the flake reference names: a branch or tag, a commit, or a source
\* parse_flake_reference does not know.
CommitTypes == {"floating", "unknown"} \cup CloneCommits

AbsentDir == [kind |-> "absent", head |-> "none"]

EmptyDir == [kind |-> "dir", head |-> "none"]

Checkout(commit) == [kind |-> "repo", head |-> commit]

NoCloneRet == [existed |-> FALSE, status |-> "none", commit |-> "none"]

CloneOutcomes == {"ok", "secret_error", "clone_error_removed", "clone_error_left"}

CloneIdle ==
    /\ clone_pc = "idle"
    /\ origin_head = "c1"
    /\ new_commit_hash = "none"
    /\ target_path = "unset"
    /\ work_dir = AbsentDir
    /\ clone_ret = NoCloneRet
    /\ applied_commit = "none"

CloneEntered ==
    /\ clone_pc = "start"
    /\ origin_head \in CloneCommits
    /\ new_commit_hash = "none"
    /\ target_path = "unset"
    /\ work_dir = AbsentDir
    /\ clone_ret = NoCloneRet
    /\ applied_commit = "none"

\* clone_git_repo: the directory and the result it leaves. target is the
\* target_path, dir the directory work_dir names at the call, head the
\* commit the clone checks out.
clone_git_repo(target, dir, ending, head) ==
    IF target # "None" /\ dir.kind = "repo"
    THEN [dir |-> dir, status |-> "returned", commit |-> dir.head]
    ELSE LET before == IF target = "None" THEN EmptyDir ELSE AbsentDir
         IN CASE ending = "ok" ->
                   [dir |-> Checkout(head), status |-> "returned", commit |-> head]
              [] ending = "secret_error" ->
                   [dir |-> IF target = "None" THEN AbsentDir ELSE before,
                    status |-> "raised", commit |-> "none"]
              [] ending = "clone_error_removed" ->
                   [dir |-> AbsentDir, status |-> "raised", commit |-> "none"]
              [] OTHER ->
                   [dir |-> IF target = "None" THEN AbsentDir ELSE EmptyDir,
                    status |-> "raised", commit |-> "none"]

\* Resolve source: the commit of a floating reference comes from
\* get_remote_commit_hash, any other commit_type is used as it is.
ResolveSource(commit_type) ==
    /\ clone_pc = "start"
    /\ new_commit_hash' = IF commit_type = "floating" THEN origin_head ELSE commit_type
    /\ clone_pc' = "resolved"
    /\ UNCHANGED <<origin_head, target_path, work_dir, clone_ret, applied_commit, not_clone>>

\* get_remote_commit_hash raises.
ResolveFails ==
    /\ clone_pc = "start"
    /\ clone_pc' = "raised"
    /\ UNCHANGED <<origin_head, new_commit_hash, target_path, work_dir, clone_ret,
                   applied_commit, not_clone>>

\* get_workdir_path: os.makedirs(workdir, exist_ok=True)
GetWorkdirPath ==
    /\ clone_pc = "resolved"
    /\ target_path' = "workdir"
    /\ work_dir' = IF work_dir.kind = "absent" THEN EmptyDir ELSE work_dir
    /\ clone_pc' = "prepared"
    /\ UNCHANGED <<origin_head, new_commit_hash, clone_ret, applied_commit, not_clone>>

\* The other task of the Configuration, which resolved the same commit,
\* clones into the same workdir.
ConcurrentClone ==
    /\ clone_pc = "prepared"
    /\ work_dir.kind # "repo"
    /\ work_dir' = Checkout(origin_head)
    /\ UNCHANGED <<clone_pc, origin_head, new_commit_hash, target_path, clone_ret,
                   applied_commit, not_clone>>

\* The reconcile calls clone_git_repo with target_path=workdir_path.
CloneGitRepo(ending) ==
    /\ clone_pc = "prepared"
    /\ LET ret == clone_git_repo(target_path, work_dir, ending, origin_head)
       IN /\ work_dir' = ret.dir
          /\ clone_ret' = [existed |-> work_dir.kind # "absent",
                           status |-> ret.status, commit |-> ret.commit]
          /\ clone_pc' = IF ret.status = "returned" THEN "cloned" ELSE "raised"
    /\ UNCHANGED <<origin_head, new_commit_hash, target_path, applied_commit, not_clone>>

\* The job handler calls clone_git_repo without target_path.
JobClone(ending) ==
    /\ clone_pc = "start"
    /\ target_path' = "None"
    /\ LET ret == clone_git_repo("None", work_dir, ending, origin_head)
       IN /\ work_dir' = ret.dir
          /\ clone_ret' = [existed |-> FALSE, status |-> ret.status,
                           commit |-> ret.commit]
          /\ clone_pc' = IF ret.status = "returned" THEN "cloned" ELSE "raised"
    /\ UNCHANGED <<origin_head, new_commit_hash, applied_commit, not_clone>>

\* The apply succeeded: appliedCommit is actual_commit_hash.
WriteAppliedCommit ==
    /\ clone_pc = "cloned"
    /\ target_path = "workdir"
    /\ applied_commit' = clone_ret.commit
    /\ clone_pc' = "applied"
    /\ UNCHANGED <<origin_head, new_commit_hash, target_path, work_dir, clone_ret,
                   not_clone>>

\* finally: shutil.rmtree(repo_path, ignore_errors=True)
FinallyRemoveRepo ==
    /\ clone_pc = "applied"
    /\ work_dir' = AbsentDir
    /\ clone_pc' = "returned"
    /\ UNCHANGED <<origin_head, new_commit_hash, target_path, clone_ret, applied_commit,
                   not_clone>>

\* The Configuration is reconciled again.
NextReconcile ==
    /\ clone_pc \in {"returned", "raised"}
    /\ target_path # "None"
    /\ clone_pc' = "start"
    /\ new_commit_hash' = "none"
    /\ target_path' = "unset"
    /\ clone_ret' = NoCloneRet
    /\ UNCHANGED <<origin_head, work_dir, applied_commit, not_clone>>

\* A commit is pushed to the remote.
PushToOrigin ==
    /\ origin_head = "c1"
    /\ clone_pc \in {"start", "resolved", "prepared"}
    /\ origin_head' = "c2"
    /\ UNCHANGED <<clone_pc, new_commit_hash, target_path, work_dir, clone_ret,
                   applied_commit, not_clone>>

\* ---------------------------------------------------------- pure functions
PureIdle == pure_fn = "none" /\ pure_args = <<>> /\ pure_ret = <<>>

\* The function fn is applied to the arguments and returns ret.
Apply(fn, ret) ==
    /\ pure_fn = "none"
    /\ pure_fn' = fn
    /\ pure_ret' = ret
    /\ UNCHANGED <<pure_args, not_pure>>

\* Entries of additionalFiles: a path and either an inline text or a
\* reference to a secret.
FileSpecs ==
    [path : {"p", "q"}, valueType : {"Inline"}, inline : {"x", "y"}]
    \cup [path : {"p", "q"}, valueType : {"SecretRef"}, secretRef : {"s", "t"}]

FileLists == UNION {[1..n -> FileSpecs] : n \in 0..MaxHashFiles}

\* file_info of get_additional_files_hash
FileInfo(file_spec) ==
    IF file_spec.valueType = "Inline"
    THEN [path |-> file_spec.path, valueType |-> file_spec.valueType,
          inline |-> file_spec.inline]
    ELSE [path |-> file_spec.path, valueType |-> file_spec.valueType,
          secretRef |-> file_spec.secretRef]

\* get_additional_files_hash on a list of entries of additionalFiles
AdditionalFilesHash(files) ==
    get_additional_files_hash([i \in 1..Len(files) |-> FileInfo(files[i])])

ApplyAdditionalFilesHash ==
    Apply("get_additional_files_hash",
          <<AdditionalFilesHash(pure_args[1]), AdditionalFilesHash(pure_args[2])>>)

\* Directories given to calculate_directory_hash: files of one directory,
\* each with its relative path and its contents.
TreeChars == {"a", "b"}

Rank(c) == IF c = "a" THEN 1 ELSE 2

FileNames == UNION {[1..n -> TreeChars] : n \in 1..MaxNameLen}

FileContents == UNION {[1..n -> TreeChars] : n \in 0..MaxContentLen}

Trees ==
    {t \in SUBSET [path : FileNames, content : FileContents] :
        /\ Cardinality(t) <= MaxTreeFiles
        /\ \A f, g \in t : f.path = g.path => f = g}

\* files.sort(): the order of Python strings
Before(s, t) ==
    \E k \in 0..Min(Len(s), Len(t)) :
        /\ \A i \in 1..k : s[i] = t[i]
        /\ \/ k = Len(s) /\ k < Len(t)
           \/ k < Len(s) /\ k < Len(t) /\ Rank(s[k + 1]) < Rank(t[k + 1])

\* The bytes hash_obj absorbs: for each file in sorted order its relative
\* path, then its contents.
RECURSIVE ByteStream(_)
ByteStream(tree) ==
    IF tree = {} THEN <<>>
    ELSE LET file == CHOOSE f \in tree : \A g \in tree \ {f} : Before(f.path, g.path)
         IN file.path \o file.content \o ByteStream(tree \ {file})

\* hexdigest of the absorbed bytes, SHA-256 taken as injective
calculate_directory_hash(tree) == <<"sha256", ByteStream(tree)>>

ApplyDirectoryHash ==
    Apply("calculate_directory_hash",
          <<calculate_directory_hash(pure_args[1]), calculate_directory_hash(pure_args[2])>>)

\* Flake references are sequences of pieces of text; owner, repo and ref
\* hold no "/" and no "#".
NamePieces == {"o", "r", ".git"}

Names == UNION {[1..n -> NamePieces] : n \in 1..MaxNameParts}

\* a string of 40 characters of a-f0-9
HexCommit == "aaaaaaaaaaaaaaaaaaaaaaaaaaaaaaaaaaaaaaaa"

Refs == {<<>>, <<"/", "v1.0">>, <<"/", HexCommit>>}

GithubRefs ==
    {<<"github:">> \o owner \o <<"/">> \o repo \o ref \o <<"#", "host">> :
        owner \in Names, repo \in Names, ref \in Refs}

FlakeRefs == GithubRefs \cup {<<".", "#", "host">>, <<"git+ssh:", "o", "#", "host">>}

\* str.split(sep)
RECURSIVE Split(_, _)
Split(str, sep) ==
    IF \A i \in 1..Len(str) : str[i] # sep THEN <<str>>
    ELSE LET k == CHOOSE k \in 1..Len(str) :
                      str[k] = sep /\ \A j \in 1..(k - 1) : str[j] # sep
         IN <<SubSeq(str, 1, k - 1)>> \o Split(SubSeq(str, k + 1, Len(str)), sep)

parse_flake_reference(flake_ref) ==
    IF StartsWith(flake_ref, <<".">>)
    THEN [repo_name |-> <<"local">>, repo_url |-> <<".">>, commit_hash |-> <<"local">>]
    ELSE LET flake_source == Split(flake_ref, "#")[1]
         IN IF StartsWith(flake_source, <<"github:">>)
            THEN LET parts == Split(Tail(flake_source), "/")
                     owner == parts[1]
                     repo == parts[2]
                 IN [repo_name |-> owner \o <<"/">> \o repo,
                     repo_url |-> <<"https://", "github.com", "/">> \o owner
                                  \o <<"/">> \o repo \o <<".git">>,
                     commit_hash |-> IF Len(parts) > 2 /\ parts[3] = <<HexCommit>>
                                     THEN parts[3] ELSE <<"floating">>]
            ELSE [repo_name |-> <<"unknown">>, repo_url |-> flake_source,
                  commit_hash |-> <<"unknown">>]

\* Mutant: the .git at the end of the URL is kept.
extract_repo_name_keepgit(git_url) ==
    LET clean_url == IF git_url # <<>> /\ git_url[1] \in {"https://", "http://"}
                     THEN Tail(git_url) ELSE git_url
        parts == Split(clean_url, "/")
    IN IF Len(parts) >= 2
       THEN parts[Len(parts) - 1] \o <<"/">> \o parts[Len(parts)]
       ELSE clean_url

extract_repo_name_from_url(git_url) ==
    LET no_protocol == IF git_url # <<>> /\ git_url[1] \in {"https://", "http://"}
                       THEN Tail(git_url) ELSE git_url
        clean_url == IF no_protocol # <<>> /\ no_protocol[Len(no_protocol)] = ".git"
                     THEN SubSeq(no_protocol, 1, Len(no_protocol) - 1)
                     ELSE no_protocol
        parts == Split(clean_url, "/")
    IN IF Len(parts) >= 2
       THEN parts[Len(parts) - 1] \o <<"/">> \o parts[Len(parts)]
       ELSE clean_url

ApplyParseFlakeReference ==
    LET parsed == parse_flake_reference(pure_args[1])
    IN Apply("parse_flake_reference",
             <<parsed, extract_repo_name_from_url(parsed.repo_url)>>)

\* Credential tiers of check_machine_discoverable. A secret is what
\* get_secret_data gives for it: it raises (found = FALSE) or returns data.
NoSecret == [found |-> FALSE, data |-> <<>>]

Secret(data) == [found |-> TRUE, data |-> data]

KeySecrets ==
    {NoSecret, Secret(<<>>), Secret("ssh-privatekey" :> ""),
     Secret("ssh-privatekey" :> "KEY"), Secret("token" :> "T")}

PasswordSecrets ==
    {NoSecret, Secret(<<>>), Secret("password" :> ""),
     Secret("password" :> "PW"), Secret("pw" :> "PW")}

\* machine_spec: which references it holds, and the key of the password
\* reference ("absent" when it has none).
ProbeMachineSpecs ==
    [sshKeySecretRef : BOOLEAN, sshPasswordSecretRef : BOOLEAN,
     key : {"absent", "pw"}]

\* Mutant: the password secret is read whether or not a key was obtained.
ssh_config_bothtiers(machine_spec, key_secret, password_secret) ==
    LET key_ok == /\ machine_spec.sshKeySecretRef
                  /\ key_secret.found
                  /\ Get(key_secret.data, "ssh-privatekey", "") # ""
        password_key == IF machine_spec.key = "absent" THEN "password"
                        ELSE machine_spec.key
        password_read == machine_spec.sshPasswordSecretRef
        password_ok == /\ password_read
                       /\ password_secret.found
                       /\ Get(password_secret.data, password_key, "") # ""
    IN [client_keys |-> IF key_ok THEN key_secret.data["ssh-privatekey"] ELSE "",
        password |-> IF password_ok THEN password_secret.data[password_key] ELSE "",
        has_credentials |-> key_ok \/ password_ok,
        reads |-> (IF machine_spec.sshKeySecretRef THEN <<"sshKeySecretRef">> ELSE <<>>)
                  \o (IF password_read THEN <<"sshPasswordSecretRef">> ELSE <<>>),
        warnings |-> <<>>,
        raised |-> FALSE]

\* ssh_config and has_credentials at the connect of check_machine_discoverable,
\* with the secrets read and the warnings logged on the way.
ssh_config(machine_spec, key_secret, password_secret) ==
    LET key_ok == /\ machine_spec.sshKeySecretRef
                  /\ key_secret.found
                  /\ Get(key_secret.data, "ssh-privatekey", "") # ""
        key_warning ==
            IF ~machine_spec.sshKeySecretRef \/ key_ok THEN <<>>
            ELSE IF key_secret.found THEN <<"MissingSSHKey">>
            ELSE <<"SecretNotFound">>
        password_key == IF machine_spec.key = "absent" THEN "password"
                        ELSE machine_spec.key
        password_read == ~key_ok /\ machine_spec.sshPasswordSecretRef
        password_ok == /\ password_read
                       /\ password_secret.found
                       /\ Get(password_secret.data, password_key, "") # ""
        password_warning ==
            IF ~password_read \/ password_ok THEN <<>>
            ELSE IF password_secret.found THEN <<"MissingPassword">>
            ELSE <<"SecretNotFound">>
    IN [client_keys |-> IF key_ok THEN key_secret.data["ssh-privatekey"] ELSE "",
        password |-> IF password_ok THEN password_secret.data[password_key] ELSE "",
        has_credentials |-> key_ok \/ password_ok,
        reads |-> (IF machine_spec.sshKeySecretRef THEN <<"sshKeySecretRef">> ELSE <<>>)
                  \o (IF password_read THEN <<"sshPasswordSecretRef">> ELSE <<>>),
        warnings |-> key_warning \o password_warning,
        raised |-> FALSE]

ApplyCheckMachineDiscoverable ==
    Apply("check_machine_discoverable",
          <<ssh_config(pure_args[1], pure_args[2], pure_args[3])>>)

\* The reconciler at rest, for the specifications of the library functions.
ReconcilerIdle ==
    /\ ReconcilerInit
    /\ cfgSpec = [fullInstall |-> FALSE, onRemoveFlake |-> FALSE,
                  additionalFiles |-> <<>>]
    /\ machineSpec = [sshKeySecretRef |-> FALSE]
    /\ cfgStatus = <<>>

\* Every component other than g is at rest.
IdleExcept(g) ==
    /\ IF g = "reconciler" THEN TRUE ELSE ReconcilerIdle
    /\ IF g = "retry" THEN TRUE ELSE RetryIdle
    /\ IF g = "known_hosts" THEN TRUE ELSE KnownHostsManager_init
    /\ IF g = "apply" THEN TRUE ELSE ApplyIdle
    /\ IF g = "secret" THEN TRUE ELSE SecretIdle
    /\ IF g = "gc" THEN TRUE ELSE GcIdle
    /\ IF g = "pure" THEN TRUE ELSE PureIdle
    /\ IF g = "clone" THEN TRUE ELSE CloneIdle
    /\ IF g = "create" THEN TRUE ELSE create_pc = "idle"

Init == ReconcilerInit /\ IdleExcept("reconciler")

\* ------------------------------------------------------- task bookkeeping
SecretOutcomes == {"key", "nokey", "missing"}

ApiFailures == {"none", "machine", "config"}

\* A change handler is called with the body of the event that triggered it;
\* a timer is called with a live view of the resource.
StatusSeen(t) ==
    IF t = "timer" THEN Restrict(cfgStatus, StatusRead) ELSE body[t].status

SpecSeen(t) == IF t = "timer" THEN cfgSpec ELSE body[t].spec

\* A handler that returns normally on a delete event lets the resource go;
\* a raised kopf.TemporaryError keeps it and schedules a retry.
Releases(t, out) ==
    /\ t = "handler"
    /\ deletion_timestamp[t]
    /\ out # "error"

\* The handler returns (or raises, out = "error"); its locals die with it.
Finish(t, out) ==
    /\ pc' = [pc EXCEPT ![t] = "idle"]
    /\ outcome' = out
    /\ released' = (released \/ Releases(t, out))
    /\ body' = [body EXCEPT ![t] = NoBody]
    /\ deletion_timestamp' = [deletion_timestamp EXCEPT ![t] = FALSE]
    /\ is_discoverable' = [is_discoverable EXCEPT ![t] = FALSE]
    /\ actual_commit_hash' = [actual_commit_hash EXCEPT ![t] = NoCommit]
    /\ config_hash' = [config_hash EXCEPT ![t] = EmptyHash]
    /\ additional_files_hash' = [additional_files_hash EXCEPT ![t] = EmptyHash]
    /\ current_has_full_install' = [current_has_full_install EXCEPT ![t] = FALSE]
    /\ needs_full_install' = [needs_full_install EXCEPT ![t] = FALSE]
    /\ cmd' = [cmd EXCEPT ![t] = NoCmd]
    /\ elapsed' = [elapsed EXCEPT ![t] = 0]

\* ------------------------------------------------------------- reconcile
\* Entry of reconcile_nixos_configuration up to the SSH connect of the
\* probe: read deletionTimestamp, look up the Machine, resolve the key tier.
\* Timers of a resource stop once it is marked for deletion.
Start(t, secret) ==
    /\ pc[t] = "idle"
    /\ ~released
    /\ (t = "timer" => ~deletionTimestamp)
    /\ pc' = [pc EXCEPT ![t] = "probing"]
    /\ body' = [body EXCEPT ![t] =
                  IF t = "timer" THEN NoBody
                  ELSE [status |-> Restrict(cfgStatus, StatusRead),
                        spec |-> cfgSpec]]
    /\ deletion_timestamp' = [deletion_timestamp EXCEPT ![t] = deletionTimestamp]
    /\ keyFiles' = IF machineSpec.sshKeySecretRef /\ secret = "key"
                   THEN keyFiles \cup {<<t, "probe">>} ELSE keyFiles
    /\ outcome' = "none"
    /\ UNCHANGED <<env, cfgStatus, machineStatus, workdir, released, is_discoverable, actual_commit_hash, config_hash, additional_files_hash,
                   current_has_full_install, needs_full_install, cmd, elapsed>>
    /\ UNCHANGED lib

\* The probe's finally block removes the key file it created.
ProbeCleanup(t) == keyFiles \ {<<t, "probe">>}

\* Mutant: the availability gate is missing; a failed probe falls through
\* to the apply step.
ProbeUnreachable_nogate(t, apiOK) ==
    /\ pc[t] = "probing"
    /\ pc' = [pc EXCEPT ![t] = "applying"]
    /\ is_discoverable' = [is_discoverable EXCEPT ![t] = FALSE]
    /\ keyFiles' = (keyFiles \ {<<t, "probe">>}) \cup
           (IF machineSpec.sshKeySecretRef THEN {<<t, "apply">>} ELSE {})
    /\ actual_commit_hash' = [actual_commit_hash EXCEPT ![t] = remoteHead]
    /\ workdir' = remoteHead
    /\ body' = [body EXCEPT ![t] = NoBody]
    /\ cmd' = [cmd EXCEPT ![t] = [tool |-> "nixos-rebuild", flake |-> "flake"]]
    /\ outcome' = "none"
    /\ UNCHANGED <<env, cfgStatus, machineStatus, released, deletion_timestamp, config_hash, additional_files_hash,
                   current_has_full_install, needs_full_install, elapsed>>
    /\ UNCHANGED lib

\* Availability gate: the probe failed, the condition is patched and the
\* handler returns; an API error on the patch surfaces as TemporaryError.
ProbeUnreachable(t, apiOK) ==
    /\ pc[t] = "probing"
    /\ keyFiles' = ProbeCleanup(t)
    /\ IF apiOK
       THEN /\ cfgStatus' = update_configuration_status(cfgStatus,
                   [targetMachine |-> MachineName,
                    conditions |-> Condition("False", "MissingCredentials")],
                   {"appliedCommit", "lastAppliedTime"})
            /\ Finish(t, "unreachable")
       ELSE /\ UNCHANGED cfgStatus
            /\ Finish(t, "error")
    /\ UNCHANGED <<env, machineStatus, workdir>>
    /\ UNCHANGED lib

\* The probe succeeded but clone_git_repo raised: no checkout, no patch.
CloneFails(t) ==
    /\ pc[t] = "probing"
    /\ workdir = 0
    /\ keyFiles' = ProbeCleanup(t)
    /\ Finish(t, "error")
    /\ UNCHANGED <<env, cfgStatus, machineStatus, workdir>>
    /\ UNCHANGED lib

\* clone_git_repo with target_path: an existing valid checkout is reused,
\* otherwise the remote HEAD is cloned.
ClonedCommit == IF workdir # 0 THEN workdir ELSE remoteHead

\* Mutant: a new commit is never noticed.
commit_changed_never(t) == FALSE

commit_changed(t) ==
    Get(StatusSeen(t), "appliedCommit", NoCommit) # ClonedCommit

additional_files_changed(t) ==
    Get(StatusSeen(t), "additionalFilesHash", EmptyHash)
        # get_additional_files_hash(SpecSeen(t).additionalFiles)

\* Mutant: the change detection result is ignored.
should_reconcile_always(t) ==
    IF deletion_timestamp[t] THEN SpecSeen(t).onRemoveFlake ELSE TRUE

should_reconcile(t) ==
    IF deletion_timestamp[t]
    THEN SpecSeen(t).onRemoveFlake
    ELSE commit_changed(t) \/ additional_files_changed(t)

\* Mutant: the patch of the deletion branch leaves appliedCommit in place.
DeleteWithoutRemoveFlake_keepcommit(t, apiOK) ==
    /\ pc[t] = "probing"
    /\ deletion_timestamp[t]
    /\ ~SpecSeen(t).onRemoveFlake
    /\ keyFiles' = ProbeCleanup(t)
    /\ IF apiOK
       THEN /\ machineStatus' = update_machine_status(machineStatus,
                   [hasConfiguration |-> FALSE],
                   {"appliedConfiguration"})
            /\ Finish(t, "cleared")
       ELSE /\ UNCHANGED machineStatus
            /\ Finish(t, "error")
    /\ workdir' = 0
    /\ UNCHANGED <<env, cfgStatus>>
    /\ UNCHANGED lib

\* Deletion without onRemoveFlake: clear the Machine status and return.
DeleteWithoutRemoveFlake(t, apiOK) ==
    /\ pc[t] = "probing"
    /\ deletion_timestamp[t]
    /\ ~SpecSeen(t).onRemoveFlake
    /\ keyFiles' = ProbeCleanup(t)
    /\ IF apiOK
       THEN /\ machineStatus' = update_machine_status(machineStatus,
                   [hasConfiguration |-> FALSE],
                   {"appliedConfiguration", "appliedCommit"})
            /\ Finish(t, "cleared")
       ELSE /\ UNCHANGED machineStatus
            /\ Finish(t, "error")
    /\ workdir' = 0
    /\ UNCHANGED <<env, cfgStatus>>
    /\ UNCHANGED lib

\* No change detected: return without applying.
NoChange(t) ==
    /\ pc[t] = "probing"
    /\ ~deletion_timestamp[t]
    /\ ~should_reconcile(t)
    /\ keyFiles' = ProbeCleanup(t)
    /\ Finish(t, "nochange")
    /\ workdir' = 0
    /\ UNCHANGED <<env, cfgStatus, machineStatus>>
    /\ UNCHANGED lib

\* apply_nixos_configuration returns False before spawning anything: the
\* SSH key secret cannot be read or has no ssh-privatekey.
ApplyMissingKey(t, secret) ==
    /\ pc[t] = "probing"
    /\ should_reconcile(t)
    /\ machineSpec.sshKeySecretRef
    /\ secret # "key"
    /\ keyFiles' = ProbeCleanup(t)
    /\ Finish(t, "error")
    /\ workdir' = 0
    /\ UNCHANGED <<env, cfgStatus, machineStatus>>
    /\ UNCHANGED lib

\* Mutant: the full-install latch is not consulted.
NeedsFullInstall_nolatch(spec, has_full_install) == spec.fullInstall

NeedsFullInstall(spec, has_full_install) ==
    spec.fullInstall /\ ~has_full_install

\* Mutant: a full install that has not completed is run on removal too.
ApplyCommand_anywhere(is_remove, needs_full, spec) ==
    [tool  |-> IF needs_full THEN "nixos-anywhere" ELSE "nixos-rebuild",
     flake |-> IF is_remove /\ spec.onRemoveFlake THEN "onRemoveFlake"
               ELSE "flake"]

\* Command selection of apply_nixos_configuration.
ApplyCommand(is_remove, needs_full, spec) ==
    [tool  |-> IF needs_full /\ ~is_remove THEN "nixos-anywhere"
               ELSE "nixos-rebuild",
     flake |-> IF is_remove /\ spec.onRemoveFlake THEN "onRemoveFlake"
               ELSE "flake"]

\* The apply subprocess is spawned; the task now waits for it.
ApplySpawn(t) ==
    /\ pc[t] = "probing"
    /\ should_reconcile(t)
    /\ LET has_full == Get(StatusSeen(t), "fullDiskInstallCompleted", FALSE)
           needs_full == NeedsFullInstall(SpecSeen(t), has_full)
       IN /\ current_has_full_install' =
                 [current_has_full_install EXCEPT ![t] = has_full]
          /\ needs_full_install' = [needs_full_install EXCEPT ![t] = needs_full]
          /\ cmd' = [cmd EXCEPT ![t] =
                 ApplyCommand(deletion_timestamp[t], needs_full, SpecSeen(t))]
    /\ pc' = [pc EXCEPT ![t] = "applying"]
    /\ is_discoverable' = [is_discoverable EXCEPT ![t] = TRUE]
    /\ body' = [body EXCEPT ![t] = NoBody]
    /\ keyFiles' = ProbeCleanup(t) \cup
           (IF machineSpec.sshKeySecretRef THEN {<<t, "apply">>} ELSE {})
    /\ actual_commit_hash' = [actual_commit_hash EXCEPT ![t] = ClonedCommit]
    /\ additional_files_hash' = [additional_files_hash EXCEPT ![t] =
           get_additional_files_hash(SpecSeen(t).additionalFiles)]
    /\ config_hash' = [config_hash EXCEPT ![t] =
           inject_additional_files(ClonedCommit, SpecSeen(t).additionalFiles)]
    /\ workdir' = ClonedCommit
    /\ outcome' = "none"
    /\ UNCHANGED <<env, cfgStatus, machineStatus, released, deletion_timestamp, elapsed>>
    /\ UNCHANGED lib

\* inject_additional_files cannot read the secret of a SecretRef entry: it
\* logs the error and goes on, the file is not written, and the apply
\* subprocess is spawned on the checkout without it.
ApplySpawnSecretMissing(t) ==
    /\ pc[t] = "probing"
    /\ should_reconcile(t)
    /\ SpecSeen(t).additionalFiles # <<>>
    /\ LET has_full == Get(StatusSeen(t), "fullDiskInstallCompleted", FALSE)
           needs_full == NeedsFullInstall(SpecSeen(t), has_full)
       IN /\ current_has_full_install' =
                 [current_has_full_install EXCEPT ![t] = has_full]
          /\ needs_full_install' = [needs_full_install EXCEPT ![t] = needs_full]
          /\ cmd' = [cmd EXCEPT ![t] =
                 ApplyCommand(deletion_timestamp[t], needs_full, SpecSeen(t))]
    /\ pc' = [pc EXCEPT ![t] = "applying"]
    /\ is_discoverable' = [is_discoverable EXCEPT ![t] = TRUE]
    /\ body' = [body EXCEPT ![t] = NoBody]
    /\ keyFiles' = ProbeCleanup(t) \cup
           (IF machineSpec.sshKeySecretRef THEN {<<t, "apply">>} ELSE {})
    /\ actual_commit_hash' = [actual_commit_hash EXCEPT ![t] = ClonedCommit]
    /\ additional_files_hash' = [additional_files_hash EXCEPT ![t] =
           get_additional_files_hash(SpecSeen(t).additionalFiles)]
    /\ config_hash' = [config_hash EXCEPT ![t] =
           inject_additional_files(ClonedCommit, <<>>)]
    /\ workdir' = ClonedCommit
    /\ outcome' = "none"
    /\ UNCHANGED <<env, cfgStatus, machineStatus, released, deletion_timestamp, elapsed>>
    /\ UNCHANGED lib

\* inject_additional_files raises (a file cannot be written): the finally
\* block removes the checkout and the reconcile raises kopf.TemporaryError.
InjectRaises(t) ==
    /\ pc[t] = "probing"
    /\ should_reconcile(t)
    /\ SpecSeen(t).additionalFiles # <<>>
    /\ keyFiles' = ProbeCleanup(t)
    /\ Finish(t, "error")
    /\ workdir' = 0
    /\ UNCHANGED <<env, cfgStatus, machineStatus>>
    /\ UNCHANGED lib

\* Mutant: the key file of the apply step is left behind.
ApplyCleanup_leak(t) == keyFiles

\* The finally block of apply_nixos_configuration removes its key file.
ApplyCleanup(t) == keyFiles \ {<<t, "apply">>}

\* Mutant: the commit recorded is the one the status already held.
AppliedStatus_stalecommit(t, reason, full) ==
    [appliedCommit |-> Get(cfgStatus, "appliedCommit", NoCommit),
     targetMachine |-> MachineName,
     configurationHash |-> config_hash[t],
     additionalFilesHash |-> additional_files_hash[t],
     hasFullInstall |-> full,
     conditions |-> Condition("True", reason)]

\* Status written to the Configuration after a successful apply.
AppliedStatus(t, reason, full) ==
    [appliedCommit |-> actual_commit_hash[t],
     targetMachine |-> MachineName,
     configurationHash |-> config_hash[t],
     additionalFilesHash |-> additional_files_hash[t],
     hasFullInstall |-> full,
     conditions |-> Condition("True", reason)]

\* The subprocess exited with code 0 on a normal reconcile: patch the
\* Machine, then the Configuration; `apiFail` names the patch that raised.
ApplySucceeds(t, apiFail) ==
    /\ pc[t] = "applying"
    /\ ~deletion_timestamp[t]
    /\ keyFiles' = ApplyCleanup(t)
    /\ machineStatus' =
         IF apiFail = "machine" THEN machineStatus
         ELSE update_machine_status(machineStatus,
                  [hasConfiguration |-> TRUE,
                   appliedConfiguration |-> ConfigName,
                   appliedCommit |-> actual_commit_hash[t]], {})
    /\ cfgStatus' =
         IF apiFail # "none" THEN cfgStatus
         ELSE update_configuration_status(cfgStatus,
                  AppliedStatus(t, "Success",
                      needs_full_install[t] \/ current_has_full_install[t]),
                  {})
    /\ Finish(t, IF apiFail = "none" THEN "applied" ELSE "error")
    /\ workdir' = 0
    /\ UNCHANGED env
    /\ UNCHANGED lib

\* The subprocess exited with code 0 on a delete with onRemoveFlake.
RemoveSucceeds(t, apiFail) ==
    /\ pc[t] = "applying"
    /\ deletion_timestamp[t]
    /\ keyFiles' = ApplyCleanup(t)
    /\ machineStatus' =
         IF apiFail = "machine" THEN machineStatus
         ELSE update_machine_status(machineStatus,
                  [hasConfiguration |-> FALSE],
                  {"appliedConfiguration", "appliedCommit"})
    /\ cfgStatus' =
         IF apiFail # "none" THEN cfgStatus
         ELSE update_configuration_status(cfgStatus,
                  AppliedStatus(t, "Removed", current_has_full_install[t]),
                  {})
    /\ Finish(t, IF apiFail = "none" THEN "removed" ELSE "error")
    /\ workdir' = 0
    /\ UNCHANGED env
    /\ UNCHANGED lib

\* The subprocess exited non-zero (or spawning raised): apply returns False
\* and the reconcile raises kopf.TemporaryError.
\* Mutant: a failed apply sends the reconcile back to spawn the command again.
ApplyFails_retry(t) ==
    /\ pc[t] = "applying"
    /\ pc' = [pc EXCEPT ![t] = "probing"]
    /\ outcome' = "none"
    /\ UNCHANGED <<env, cfgStatus, machineStatus, workdir, keyFiles, released,
                   locals>>
    /\ UNCHANGED lib

ApplyFails(t) ==
    /\ pc[t] = "applying"
    /\ keyFiles' = ApplyCleanup(t)
    /\ Finish(t, "error")
    /\ workdir' = 0
    /\ UNCHANGED <<env, cfgStatus, machineStatus>>
    /\ UNCHANGED lib

\* Wall-clock time passes while the subprocess has not exited.
Tick(t) ==
    /\ pc[t] = "applying"
    /\ elapsed[t] < MaxTicks * NIXOS_APPLY_TIMEOUT
    /\ elapsed' = [elapsed EXCEPT ![t] = @ + NIXOS_APPLY_TIMEOUT]
    /\ outcome' = "none"
    /\ UNCHANGED <<env, cfgStatus, machineStatus, workdir, keyFiles, released,
                   pc, body, deletion_timestamp, is_discoverable,
                   actual_commit_hash,
                   config_hash, additional_files_hash,
                   current_has_full_install, needs_full_install, cmd>>
    /\ UNCHANGED lib

\* ------------------------------------------------------- Machine handlers
\* on_machine_create: probe once, patch {discoverable, hasConfiguration}.
on_machine_create(probe) ==
    /\ machineStatus = <<>>
    /\ machineStatus' = update_machine_status(machineStatus,
           [discoverable |-> probe, hasConfiguration |-> FALSE], {})
    /\ outcome' = "none"
    /\ UNCHANGED <<env, cfgStatus, workdir, keyFiles, released, pc,
                   locals>>
    /\ UNCHANGED lib

\* check_machine_discoverability timer: probe, patch {discoverable}.
check_machine_discoverability(probe) ==
    /\ machineStatus # <<>>
    /\ machineStatus' = update_machine_status(machineStatus,
           [discoverable |-> probe], {})
    /\ outcome' = "none"
    /\ UNCHANGED <<env, cfgStatus, workdir, keyFiles, released, pc,
                   locals>>
    /\ UNCHANGED lib

\* on_machine_create from the await of its probe on: the handler was started
\* by the creation of the Machine and has probed; its patch reaches the API
\* server whenever the event loop gets to it, whatever the status then holds.
on_machine_create_patch(is_discoverable_now) ==
    /\ create_pc = "probing"
    /\ create_pc' = "done"
    /\ machineStatus' = update_machine_status(machineStatus,
           [discoverable |-> is_discoverable_now, hasConfiguration |-> FALSE],
           {})
    /\ outcome' = "none"
    /\ UNCHANGED <<env, cfgStatus, workdir, keyFiles, released, pc,
                   locals>>
    /\ UNCHANGED <<retry_vars, kh_vars, apply_vars, secret_vars, gc_vars,
                   pure_vars, clone_vars>>

\* ------------------------------------------------------------ environment
\* The reconcile of another Configuration that references the same Machine
\* succeeds and patches the Machine status with its own name and commit.
OtherConfigurationApplied ==
    /\ machineStatus' = update_machine_status(machineStatus,
           [hasConfiguration |-> TRUE,
            appliedConfiguration |-> OtherConfigName,
            appliedCommit |-> remoteHead], {})
    /\ machineStatus' # machineStatus
    /\ outcome' = "none"
    /\ UNCHANGED <<env, cfgStatus, workdir, keyFiles, released, pc,
                   locals>>
    /\ UNCHANGED lib

\* A new commit is pushed to the remote repository.
AdvanceRemote ==
    /\ remoteHead < MaxCommit
    /\ remoteHead' = remoteHead + 1
    /\ outcome' = "none"
    /\ UNCHANGED <<cfgSpec, deletionTimestamp, machineSpec, cfgStatus,
                   machineStatus, workdir, keyFiles, released, pc,
                   locals>>
    /\ UNCHANGED lib

\* The user edits spec.additionalFiles.
EditAdditionalFiles(files) ==
    /\ ~deletionTimestamp
    /\ files # cfgSpec.additionalFiles
    /\ cfgSpec' = [cfgSpec EXCEPT !.additionalFiles = files]
    /\ outcome' = "none"
    /\ UNCHANGED <<deletionTimestamp, machineSpec, remoteHead, cfgStatus,
                   machineStatus, workdir, keyFiles, released, pc,
                   locals>>
    /\ UNCHANGED lib

\* The user deletes the NixosConfiguration.
DeleteConfiguration ==
    /\ ~deletionTimestamp
    /\ deletionTimestamp' = TRUE
    /\ outcome' = "none"
    /\ UNCHANGED <<cfgSpec, machineSpec, remoteHead, cfgStatus,
                   machineStatus, workdir, keyFiles, released, pc,
                   locals>>
    /\ UNCHANGED lib

\* ---------------------------------------------------------- specification
\* The reconciler of one NixosConfiguration and its environment.
Next ==
    \/ \E t \in Tasks, secret \in SecretOutcomes : Start(t, secret)
    \/ \E t \in Tasks, apiOK \in BOOLEAN : ProbeUnreachable(t, apiOK)
    \/ \E t \in Tasks : CloneFails(t)
    \/ \E t \in Tasks, apiOK \in BOOLEAN : DeleteWithoutRemoveFlake(t, apiOK)
    \/ \E t \in Tasks : NoChange(t)
    \/ \E t \in Tasks, secret \in SecretOutcomes : ApplyMissingKey(t, secret)
    \/ \E t \in Tasks : ApplySpawn(t)
    \/ \E t \in Tasks, apiFail \in ApiFailures : ApplySucceeds(t, apiFail)
    \/ \E t \in Tasks, apiFail \in ApiFailures : RemoveSucceeds(t, apiFail)
    \/ \E t \in Tasks : ApplyFails(t)
    \/ AdvanceRemote
    \/ \E files \in FilesSpecs : EditAdditionalFiles(files)
    \/ DeleteConfiguration

Spec == Init /\ [][Next]_vars

\* The reconciler together with the handlers of the Machine it references.
MachineNext ==
    \/ Next
    \/ \E probe \in BOOLEAN : on_machine_create(probe)
    \/ \E probe \in BOOLEAN : check_machine_discoverability(probe)

MachineSpec == Init /\ [][MachineNext]_vars

\* The reconciler next to a second Configuration of the same Machine.
SharedMachineNext ==
    \/ Next
    \/ OtherConfigurationApplied

SharedMachineSpec == Init /\ [][SharedMachineNext]_vars

\* The reconciler with the failures of inject_additional_files.
InjectNext ==
    \/ Next
    \/ \E t \in Tasks : ApplySpawnSecretMissing(t)
    \/ \E t \in Tasks : InjectRaises(t)

InjectSpec == Init /\ [][InjectNext]_vars

\* The reconciler next to the create handler of the Machine it references:
\* the Machine has just been created and its handler is in flight.
CreateInit ==
    /\ ReconcilerInit
    /\ RetryIdle /\ KnownHostsManager_init /\ ApplyIdle /\ SecretIdle
    /\ GcIdle /\ PureIdle /\ CloneIdle
    /\ create_pc = "probing"

CreateNext ==
    \/ Next
    \/ \E probe \in BOOLEAN : on_machine_create_patch(probe)

CreateSpec == CreateInit /\ [][CreateNext]_vars

\* The reconciler with the wall clock observed while a subprocess runs.
ClockNext ==
    \/ Next
    \/ \E t \in Tasks : Tick(t)

ClockSpec == Init /\ [][ClockNext]_vars

\* The reconciler while its Configuration is not deleted, the Machine stays
\* reachable, the secrets and the API answer and every apply command succeeds.
\* The timer keeps firing, and a reconcile that has started goes on: its
\* probe returns and its subprocess exits.
ConvergeNext ==
    \/ \E t \in Tasks : Start(t, "key")
    \/ \E t \in Tasks : NoChange(t)
    \/ \E t \in Tasks : ApplySpawn(t)
    \/ \E t \in Tasks : ApplySucceeds(t, "none")
    \/ AdvanceRemote
    \/ \E files \in FilesSpecs : EditAdditionalFiles(files)

ConvergeFairness ==
    /\ WF_vars(Start("timer", "key"))
    /\ \A t \in Tasks :
          WF_vars(NoChange(t) \/ ApplySpawn(t) \/ ApplySucceeds(t, "none"))

ConvergeSpec == Init /\ [][ConvergeNext]_vars /\ ConvergeFairness

\* One call of retry_with_backoff, for every choice of its parameters, of
\* what each call of func does and of the value random.random() returns.
RetryInit == RetryEntered /\ IdleExcept("retry")

RetryNext ==
    \/ \E o \in CallOutcomes, f \in JitterFactors : RetryCall(o, f)
    \/ RetrySleep
    \/ RetryExhausted

RetrySpec == RetryInit /\ [][RetryNext]_vars

\* The known_hosts store and the SSH connections of the operator, for every
\* host, port and server key.
KnownHostsInit == KnownHostsManager_init /\ IdleExcept("known_hosts")

KnownHostsNext ==
    \/ \E n \in EntryNames, k \in PublicKeys : CallAddHostKey(n, k)
    \/ \E h \in Hosts, p \in Ports : CallTrustOnFirstUse(h, p)
    \/ \E h \in Hosts : CallClearHost(h)
    \/ UnlinkKnownHosts
    \/ \E h \in Hosts, r \in BOOLEAN, k \in PublicKeys : ProbeConnect(h, r, k)
    \/ \E h \in Hosts, r \in BOOLEAN, k \in PublicKeys : ScanConnect(h, r, k)
    \/ \E h \in Hosts, r \in BOOLEAN, k \in PublicKeys :
           establish_ssh_connection(h, r, k)

KnownHostsSpec == KnownHostsInit /\ [][KnownHostsNext]_vars

\* The command line of one apply, for every choice of the user-given values.
CommandInit == ApplyEntered /\ IdleExcept("apply")

CommandNext == SpawnShell

CommandSpec == CommandInit /\ [][CommandNext]_vars

\* The reads of a referenced secret, for every placement of the namespaces.
SecretInit == SecretEntered /\ IdleExcept("secret")

SecretNext ==
    \/ ProbeReadsSecret
    \/ ScanReadsSecret
    \/ ApplyReadsSecret

SecretSpec == SecretInit /\ [][SecretNext]_vars

\* The end of a successful reconcile, for every content of the directory.
GcInit == GcEntered /\ IdleExcept("gc")

GcNext ==
    \/ CollectGarbage
    \/ FinallyRemove

GcSpec == GcInit /\ [][GcNext]_vars

\* get_additional_files_hash applied to two lists of entries.
FilesHashInit ==
    /\ pure_fn = "none"
    /\ pure_args \in FileLists \X FileLists
    /\ pure_ret = <<>>
    /\ IdleExcept("pure")

FilesHashNext == ApplyAdditionalFilesHash

FilesHashSpec == FilesHashInit /\ [][FilesHashNext]_vars

\* calculate_directory_hash applied to two directories.
DirHashInit ==
    /\ pure_fn = "none"
    /\ pure_args \in Trees \X Trees
    /\ pure_ret = <<>>
    /\ IdleExcept("pure")

DirHashNext == ApplyDirectoryHash

DirHashSpec == DirHashInit /\ [][DirHashNext]_vars

\* parse_flake_reference applied to a flake reference, and
\* extract_repo_name_from_url to the URL it returned.
ParseInit ==
    /\ pure_fn = "none"
    /\ pure_args \in {<<flake_ref>> : flake_ref \in FlakeRefs}
    /\ pure_ret = <<>>
    /\ IdleExcept("pure")

ParseNext == ApplyParseFlakeReference

ParseSpec == ParseInit /\ [][ParseNext]_vars

\* A reconcile from resolve-source to the write of appliedCommit, and a job
\* that clones into a temporary directory.
CloneInit == CloneEntered /\ IdleExcept("clone")

CloneNext ==
    \/ \E commit_type \in CommitTypes : ResolveSource(commit_type)
    \/ ResolveFails
    \/ GetWorkdirPath
    \/ ConcurrentClone
    \/ \E ending \in CloneOutcomes : CloneGitRepo(ending)
    \/ \E ending \in CloneOutcomes : JobClone(ending)
    \/ WriteAppliedCommit
    \/ FinallyRemoveRepo
    \/ NextReconcile
    \/ PushToOrigin

CloneSpec == CloneInit /\ [][CloneNext]_vars

\* The credential tiers of check_machine_discoverable, for every Machine
\* spec and every content of the two secrets.
CredentialInit ==
    /\ pure_fn = "none"
    /\ pure_args \in {<<m, k, p>> : m \in {x \in ProbeMachineSpecs :
                                            x.key = "pw" => x.sshPasswordSecretRef},
                                   k \in KeySecrets, p \in PasswordSecrets}
    /\ pure_ret = <<>>
    /\ IdleExcept("pure")

CredentialNext == ApplyCheckMachineDiscoverable

CredentialSpec == CredentialInit /\ [][CredentialNext]_vars

\* ------------------------------------------------------------------ claims
\* A task leaves the state `from` and its reconcile ends.
Ends(t, from) == pc[t] = from /\ pc'[t] = "idle"

AppliedCondition(status) ==
    IF "conditions" \in DOMAIN status THEN status.conditions[1].status
    ELSE "absent"

\* C1: after a reconcile whose nixos-anywhere run succeeded, the status
\* records fullDiskInstallCompleted = true (so that nixos-anywhere is not
\* run again).
C1_FullInstallLatched ==
    [][\A t \in Tasks :
          (Ends(t, "applying") /\ cmd[t].tool = "nixos-anywhere"
              /\ outcome' = "applied")
          => Get(cfgStatus', "fullDiskInstallCompleted", FALSE)]_vars

\* C2: a reconcile of a Configuration that is not being deleted, which
\* gets past the gate and resolves a (commit, additionalFilesHash) pair equal
\* to the status pair it reads, spawns no apply command and changes neither
\* the Configuration status nor the Machine status.
C2_Idempotent ==
    [][\A t \in Tasks :
          (/\ pc[t] = "probing"
           /\ pc'[t] # "probing"
           /\ ~deletion_timestamp[t]
           /\ ~(pc'[t] = "idle" /\ outcome' = "unreachable")
           /\ ClonedCommit = Get(StatusSeen(t), "appliedCommit", NoCommit)
           /\ get_additional_files_hash(SpecSeen(t).additionalFiles)
                = Get(StatusSeen(t), "additionalFilesHash", EmptyHash))
          => (/\ pc'[t] = "idle"
              /\ cfgStatus' = cfgStatus
              /\ machineStatus' = machineStatus
              /\ <<t, "apply">> \notin keyFiles')]_vars

\* C2 witness: a reconcile has returned through the no-change path while the
\* status holds an applied commit.
C2_Witness ==
    /\ outcome = "nochange"
    /\ Get(cfgStatus, "appliedCommit", NoCommit) # NoCommit

\* C3: appliedCommit and configurationHash change only in a step in which
\* an apply command ran to success.
C3_AdvanceOnlyOnSuccess ==
    [][(\/ Get(cfgStatus', "appliedCommit", NoCommit)
             # Get(cfgStatus, "appliedCommit", NoCommit)
        \/ Get(cfgStatus', "configurationHash", EmptyHash)
             # Get(cfgStatus, "configurationHash", EmptyHash))
       => \E t \in Tasks :
             Ends(t, "applying") /\ outcome' \in {"applied", "removed"}]_vars

\* C4 (as stated): while the Machine status reports discoverable = false, no
\* reconcile writes the condition Applied=True.
C4_GatedByMachineStatus ==
    [][(/\ "discoverable" \in DOMAIN machineStatus
        /\ machineStatus.discoverable = FALSE)
       => ~(/\ cfgStatus' # cfgStatus
            /\ AppliedCondition(cfgStatus') = "True")]_vars

\* C4 (amended): the condition Applied=True is written only by a reconcile
\* whose own reachability probe succeeded.
C4_GatedByOwnProbe ==
    [][(/\ cfgStatus' # cfgStatus
        /\ AppliedCondition(cfgStatus') = "True")
       => \E t \in Tasks : Ends(t, "applying") /\ is_discoverable[t]]_vars

\* C4 witness: the reconcile's probe succeeded and Applied=True was written
\* although the Machine status still reports discoverable = false.
C4_Witness ==
    /\ outcome = "applied"
    /\ AppliedCondition(cfgStatus) = "True"
    /\ "discoverable" \in DOMAIN machineStatus
    /\ machineStatus.discoverable = FALSE

\* C5: a temporary SSH key file exists only while the probe or the apply
\* command that uses it runs; no task that is not reconciling owns one.
C5_KeyFileCleanup ==
    \A t \in Tasks :
        /\ (<<t, "probe">> \in keyFiles => pc[t] = "probing")
        /\ (<<t, "apply">> \in keyFiles => pc[t] = "applying")

\* C5 witness: a reconcile that wrote a key file for its apply command has
\* ended and no key file is left.
C5_Witness ==
    /\ machineSpec.sshKeySecretRef
    /\ outcome = "applied"
    /\ \A t \in Tasks : pc[t] = "idle"
    /\ keyFiles = {}

\* C6: at most one reconcile of the Configuration is in flight.
C6_Serialized == Cardinality({t \in Tasks : pc[t] # "idle"}) <= 1

\* C7: a Configuration with onRemoveFlake is released only by a delete
\* reconcile whose apply of onRemoveFlake succeeded.
C7_ReleasedAfterRemove ==
    [][(released' /\ ~released /\ cfgSpec.onRemoveFlake)
       => \E t \in Tasks :
             /\ Ends(t, "applying")
             /\ cmd[t].flake = "onRemoveFlake"
             /\ outcome' = "removed"]_vars

\* C8: a reconcile that ends in failure leaves the condition Applied=False.
C8_FailureRecorded ==
    [][\A t \in Tasks :
          (pc[t] # "idle" /\ pc'[t] = "idle" /\ outcome' = "error")
          => AppliedCondition(cfgStatus') = "False"]_vars

\* C9: an apply whose subprocess is still running when the ceiling
\* NIXOS_APPLY_TIMEOUT has elapsed ends in failure.
C9_TimeoutFails ==
    [][\A t \in Tasks :
          (Ends(t, "applying") /\ elapsed[t] >= NIXOS_APPLY_TIMEOUT)
          => outcome' = "error"]_vars

\* C10: once the status has fullDiskInstallCompleted = true, no apply
\* command that is spawned uses nixos-anywhere.
C10_NoAnywhereAfterLatch ==
    [][\A t \in Tasks :
          (/\ pc[t] = "probing"
           /\ pc'[t] = "applying"
           /\ Get(cfgStatus, "fullDiskInstallCompleted", FALSE))
          => cmd'[t].tool # "nixos-anywhere"]_vars

\* C10 witness: fullInstall is requested, the latch is set, and a normal
\* reconcile has spawned nixos-rebuild.
C10_Witness ==
    /\ cfgSpec.fullInstall
    /\ Get(cfgStatus, "fullDiskInstallCompleted", FALSE)
    /\ \E t \in Tasks :
          /\ pc[t] = "applying"
          /\ ~deletion_timestamp[t]
          /\ cmd[t].tool = "nixos-rebuild"

\* The full-install flag a status carries, under the key the reconcile reads
\* or under the key its patches write.
FullInstallLatch(status) ==
    \/ Get(status, "fullDiskInstallCompleted", FALSE)
    \/ Get(status, "hasFullInstall", FALSE)

\* C11: the full-install latch of the Configuration status is monotone: once
\* it is true, no step sets it back to false.
C11_LatchMonotone ==
    [][FullInstallLatch(cfgStatus) => FullInstallLatch(cfgStatus')]_vars

\* C12: a reconcile of a changed Configuration that is not being deleted and
\* has fullInstall = false, whose Machine is reachable and whose apply
\* succeeds, ran nixos-rebuild on the flake once and ends with Applied=True,
\* reason Success and appliedCommit = the commit of its checkout in the
\* Configuration status, and with hasConfiguration = true, appliedConfiguration
\* = the Configuration's name and the same appliedCommit in the Machine status.
C12_HappyPath ==
    [][\A t \in Tasks :
          (/\ Ends(t, "applying")
           /\ ~deletion_timestamp[t]
           /\ ~cfgSpec.fullInstall
           /\ outcome' = "applied")
          => (/\ cmd[t] = [tool |-> "nixos-rebuild", flake |-> "flake"]
              /\ is_discoverable[t]
              /\ actual_commit_hash[t] # NoCommit
              /\ cfgStatus'.conditions = Condition("True", "Success")
              /\ cfgStatus'.appliedCommit = actual_commit_hash[t]
              /\ machineStatus'.hasConfiguration = TRUE
              /\ machineStatus'.appliedConfiguration = ConfigName
              /\ machineStatus'.appliedCommit = actual_commit_hash[t])]_vars

\* C12 witness: a normal reconcile without full install has just succeeded
\* and both statuses carry the commit of the remote head.
C12_Witness ==
    /\ outcome = "applied"
    /\ ~cfgSpec.fullInstall
    /\ Get(cfgStatus, "appliedCommit", NoCommit) = remoteHead
    /\ Get(machineStatus, "appliedCommit", NoCommit) = remoteHead
    /\ Get(machineStatus, "hasConfiguration", FALSE)

\* The probe of task t runs without the SSH key: the Machine names a key
\* secret, and the secret is missing or holds no ssh-privatekey.
ProbesWithoutKey(t) ==
    /\ pc[t] = "probing"
    /\ machineSpec.sshKeySecretRef
    /\ <<t, "probe">> \notin keyFiles

\* C13: a reconcile whose Machine names an SSH key secret that cannot be
\* read stops at the availability gate: unless it raises, it ends with the
\* condition Applied=False, reason MissingCredentials, having touched neither
\* the checkout nor the Machine status and having spawned nothing.
C13_MissingCredentialsGate ==
    [][\A t \in Tasks :
          (ProbesWithoutKey(t) /\ pc'[t] = "idle" /\ outcome' # "error")
          => (/\ outcome' = "unreachable"
              /\ cfgStatus'.conditions = Condition("False", "MissingCredentials")
              /\ workdir' = workdir
              /\ machineStatus' = machineStatus)]_vars

\* The Configuration status reports commit c as applied.
AppliedAt(c) ==
    /\ AppliedCondition(cfgStatus) = "True"
    /\ Get(cfgStatus, "appliedCommit", NoCommit) = c

C15_NoRetryInReconcile ==
    [][\A t \in Tasks :
          pc[t] = "applying"
          => /\ pc'[t] \in {"applying", "idle"}
             /\ pc'[t] = "applying" => cmd'[t] = cmd[t]
             /\ (pc'[t] = "idle" /\ outcome' \notin {"applied", "removed"})
                => (outcome' = "error" /\ cmd'[t] = NoCmd)]_vars

\* C15 witness: a reconcile has its command running while the reconcile of
\* the other task has just ended with an error.
C15_Witness ==
    \E t \in Tasks :
        /\ pc[t] = "applying" /\ cmd[t] # NoCmd
        /\ outcome = "error"
        /\ \A u \in Tasks \ {t} : pc[u] = "idle"

\* retry_with_backoff has ended: it returned or raised.
RetryEnded == rpc \in {"returned", "raised"}

\* Every call of func made so far failed with an exception that is retried.
AllFailed == \A i \in 1..Len(history) : history[i] \in Retryable

\* C16: func is called at most max_attempts times; a result is returned from
\* the first call that succeeds, which is the last call made; when all
\* max_attempts calls fail the function raises RetryExhaustedError whose
\* cause is the exception of the last call, after exactly max_attempts calls.
C16_RetryContract ==
    /\ Len(history) <= max_attempts
    /\ retry_result[1] = "returned"
       => /\ history[Len(history)] = "ok"
          /\ \A i \in 1..(Len(history) - 1) : history[i] \in Retryable
          /\ retry_result[2] = Len(history)
    /\ (RetryEnded /\ AllFailed /\ Len(history) = max_attempts)
       => /\ retry_result[1] = "RetryExhaustedError"
          /\ retry_result[2] =
                 IF history = <<>> THEN None ELSE history[Len(history)]
    /\ retry_result[1] = "RetryExhaustedError"
       => (AllFailed /\ Len(history) = max_attempts)

\* C16 witness: RetryExhaustedError after several calls that failed with
\* different exceptions.
C16_Witness ==
    /\ retry_result[1] = "RetryExhaustedError"
    /\ Len(history) = max_attempts /\ max_attempts >= 2
    /\ history[1] # history[Len(history)]

\* C17: the time slept before the next attempt never exceeds max_delay,
\* with jitter and without.
C17_SleepWithinMaxDelay ==
    rpc = "sleep" => delay <= max_delay * (2 * JitterSteps)

\* C18: a successful connection to a host without an entry in the store
\* leaves exactly one entry for that host, and a successful connection to a
\* host that has an entry leaves the file as it is.
C18_TrustOnFirstUse ==
    [][ssh'.connected
       => IF EntriesFor(known_hosts_file, ssh'.hostname) = {}
          THEN Cardinality(EntriesFor(known_hosts_file', ssh'.hostname)) = 1
          ELSE known_hosts_file' = known_hosts_file]_vars

\* C19: every connection attempt of the reachability probe and of the
\* hardware scan verifies the host key against the known_hosts store.
C19_SessionsUseKnownHosts ==
    ssh.by \in {"check_machine_discoverable", "scan_machine_hardware"}
    => ssh.known_hosts = KnownHostsPath

\* C20: trust_on_first_use(host, port) returns true exactly when the file
\* has no entry for the host, plain or in the form [host]:port; lines of
\* other hosts never make it return false.
C20_FirstIffNoEntry ==
    tofu.called
    => (tofu.first <=> EntriesFor(known_hosts_file, tofu.hostname) = {})

\* The lines of the file that are equal to 'hostname key_type public_key'.
SameLines(file, hostname, key_type, public_key) ==
    {i \in 1..Len(file) :
        file[i] = [name |-> hostname, key_type |-> key_type, key |-> public_key]}

\* C21: add_host_key is an idempotent append with full-line duplicate
\* suppression: a file with at most one line equal to the entry has exactly
\* one afterwards, a second call changes nothing, and the append is skipped
\* only when an identical full line is already there.
C21_AddHostKeyIdempotent ==
    [][\A n \in EntryNames, k \in PublicKeys :
          CallAddHostKey(n, k)
          => /\ Cardinality(SameLines(known_hosts_file, n, KeyType, k)) <= 1
                => Cardinality(SameLines(known_hosts_file', n, KeyType, k)) = 1
             /\ add_host_key(known_hosts_file', n, KeyType, k) = known_hosts_file'
             /\ known_hosts_file' = known_hosts_file
                => SameLines(known_hosts_file, n, KeyType, k) # {}]_vars

\* The line belongs to the host for clear_host: its first field is the host,
\* or it begins with the bracket form of the host.
LineOf(line, hostname) ==
    \/ line.name = hostname
    \/ StartsWith(line.name, <<"[">> \o hostname \o <<"]", ":">>)

\* C22: clear_host removes exactly the lines that start with 'host ' or
\* '[host]:' and keeps every other line, in order; with no such line, or
\* with no file, nothing changes.
C22_ClearHostExact ==
    [][\A h \in Hosts :
          CallClearHost(h)
          => /\ known_hosts_file' =
                    SelectSeq(known_hosts_file, LAMBDA l : ~LineOf(l, h))
             /\ known_hosts_exists' = known_hosts_exists
             /\ (\A i \in 1..Len(known_hosts_file) :
                     ~LineOf(known_hosts_file[i], h))
                => known_hosts_file' = known_hosts_file]_vars

\* C22 witness: a call of clear_host has removed a line and has kept the
\* line of another host.
C22_Witness ==
    /\ cleared.called /\ cleared.removed >= 1
    /\ known_hosts_file # <<>>
    /\ ~LineOf(known_hosts_file[1], cleared.hostname)
    /\ StartsWith(known_hosts_file[1].name, cleared.hostname)

\* C23: every user-given value in the command line handed to the shell has
\* passed the Validator: the SSH user, the target host, the flake attribute
\* and the configuration subdirectory.
C23_CommandValidated ==
    shell_cmd # <<>>
    => /\ validate_ssh_username(apply_args.ssh_user)
       /\ validate_hostname(apply_args.target_host)
       /\ validate_path(apply_args.flake)
       /\ apply_args.configurationSubdir # <<>>
          => validate_path(apply_args.configurationSubdir)

\* C24: a secret is read from the namespace its reference names, and from
\* the namespace of the resource that carries the reference when it names
\* none; in the probe, the hardware scan and the apply step alike.
C24_SecretNamespace ==
    secret_read.by # "none"
    => secret_read.namespace =
           IF secret_args.ref_namespace # Absent
           THEN secret_args.ref_namespace ELSE secret_args.namespace

\* C25: after a successful reconcile the directory of the Configuration
\* holds the current workdir and no other workdir.
C25_OnlyCurrentKept ==
    gc_pc = "returned"
    => /\ base_dir_items[current_path] = "dir"
       /\ \A n \in ItemNames \ {current_path} : base_dir_items[n] # "dir"

\* C26: the hash of additionalFiles covers every entry: two lists that
\* differ in some entry, at any position, have different hashes, and the
\* empty list has the empty string.
C26_HashCoversEveryEntry ==
    pure_fn = "get_additional_files_hash"
    => /\ pure_args[1] # pure_args[2] => pure_ret[1] # pure_ret[2]
       /\ pure_args[1] = <<>> => pure_ret[1] = EmptyHash

\* C27: two directories that differ in the relative path or in the contents
\* of some file have different directory hashes.
C27_DifferentContentDifferentHash ==
    pure_fn = "calculate_directory_hash"
    => (pure_args[1] # pure_args[2] => pure_ret[1] # pure_ret[2])

\* C28: for every GitHub flake reference github:o/r[/x]#a, the repository
\* name extracted from the repoURL that parse_flake_reference returned is
\* the repoName it returned.
C28_ParseRoundTrip ==
    pure_fn = "parse_flake_reference" /\ pure_args[1] \in GithubRefs
    => pure_ret[2] = pure_ret[1].repo_name

\* A reference with a commit and a repo whose name ends in .git was parsed.
C28_Witness ==
    /\ pure_fn = "parse_flake_reference"
    /\ pure_args[1] \in GithubRefs
    /\ pure_ret[1].commit_hash = <<HexCommit>>
    /\ pure_ret[1].repo_name[Len(pure_ret[1].repo_name)] = ".git"
    /\ pure_ret[2] = pure_ret[1].repo_name

\* C29: when clone_git_repo is called with a target_path that exists and
\* fails, the target_path is still there afterwards; without target_path
\* the temporary directory is removed on failure.
C29_CloneErrorHandling ==
    clone_ret.status = "raised"
    => /\ target_path = "workdir" /\ clone_ret.existed => work_dir.kind # "absent"
       /\ target_path = "None" => work_dir.kind = "absent"

\* C30: after the prepare-workdir step the checkout in the workdir holds the
\* commit its path names, the one the resolve-source step gave, and that
\* commit is the appliedCommit written on success.
C30_WorkdirAddressedByCommit ==
    target_path = "workdir" /\ clone_pc \in {"cloned", "applied"}
    => /\ work_dir = Checkout(new_commit_hash)
       /\ clone_ret.commit = new_commit_hash
       /\ clone_pc = "applied" => applied_commit = new_commit_hash

\* The secret holds a non-empty value under the key.
Holds(secret, key) == secret.found /\ Get(secret.data, key, "") # ""

\* C31: the probe uses the key when the sshKeySecretRef secret holds a
\* non-empty ssh-privatekey; it reads the password secret only if it got no
\* key, and uses the password when that secret holds a non-empty value under
\* the configured key (default "password"); otherwise it connects with no
\* additional authentication; a secret that is missing or lacks the value
\* never makes the probe raise.
C31_CredentialOrder ==
    pure_fn = "check_machine_discoverable"
    => LET machine_spec == pure_args[1]
           config == pure_ret[1]
           key == machine_spec.sshKeySecretRef
                    /\ Holds(pure_args[2], "ssh-privatekey")
           password_key == IF machine_spec.key = "absent" THEN "password"
                           ELSE machine_spec.key
           password == ~key /\ machine_spec.sshPasswordSecretRef
                         /\ Holds(pure_args[3], password_key)
       IN /\ ~config.raised
          /\ (config.client_keys # "") = key
          /\ key => config.client_keys = pure_args[2].data["ssh-privatekey"]
          /\ key => \A i \in 1..Len(config.reads) :
                        config.reads[i] # "sshPasswordSecretRef"
          /\ (config.password # "") = password
          /\ password => config.password = pure_args[3].data[password_key]
          /\ config.has_credentials = (key \/ password)

\* C31 witness: the key secret is missing, the probe fell through to the
\* password tier and took the password under a configured key.
C31_Witness ==
    /\ pure_fn = "check_machine_discoverable"
    /\ pure_args[1].sshKeySecretRef
    /\ ~pure_args[2].found
    /\ pure_args[1].key = "pw"
    /\ pure_ret[1].password = "PW"
    /\ pure_ret[1].warnings = <<"SecretNotFound">>

\* C32: a reconcile that sees deletionTimestamp never spawns nixos-anywhere,
\* even with fullInstall and no completed full install: it spawns
\* nixos-rebuild on onRemoveFlake; a reconcile that does not see it always
\* applies spec.flake.
C32_CommandOnRemove ==
    [][\A t \in Tasks :
          (pc[t] = "probing" /\ pc'[t] = "applying")
          => /\ deletion_timestamp[t]
                => cmd'[t] = [tool |-> "nixos-rebuild", flake |-> "onRemoveFlake"]
             /\ ~deletion_timestamp[t] => cmd'[t].flake = "flake"]_vars

\* C32 witness: a delete reconcile of a Configuration with fullInstall and
\* no completed full install has its command running.
C32_Witness ==
    \E t \in Tasks :
        /\ pc[t] = "applying"
        /\ deletion_timestamp[t]
        /\ cfgSpec.fullInstall
        /\ ~Get(cfgStatus, "fullDiskInstallCompleted", FALSE)
        /\ needs_full_install[t]
        /\ cmd[t].tool = "nixos-rebuild"

\* Task t is in a delete reconcile of a Configuration without onRemoveFlake
\* and has not passed the probe yet.
DeletesWithoutRemoveFlake(t) ==
    /\ pc[t] = "probing"
    /\ deletion_timestamp[t]
    /\ ~SpecSeen(t).onRemoveFlake

\* The Machine status no longer names a Configuration.
MachineCleared(status) ==
    /\ Get(status, "hasConfiguration", TRUE) = FALSE
    /\ "appliedConfiguration" \notin DOMAIN status
    /\ "appliedCommit" \notin DOMAIN status

InjectionFailed(t) ==
    /\ pc[t] = "applying"
    /\ additional_files_hash[t] # EmptyHash
    /\ config_hash[t] = inject_additional_files(actual_commit_hash[t], <<>>)

\* C34: past the availability gate no failure is swallowed: a reconcile that
\* returns normally after its apply command had every additional file
\* injected and has patched both statuses; every other end is the temporary
\* error.
C34_FailuresRaise ==
    [][\A t \in Tasks :
          (Ends(t, "applying") /\ outcome' # "error")
          => /\ ~InjectionFailed(t)
             /\ outcome' \in {"applied", "removed"}
             /\ cfgStatus'.appliedCommit = actual_commit_hash[t]
             /\ outcome' = "applied"
                => machineStatus'.appliedCommit = actual_commit_hash[t]
             /\ outcome' = "removed" => MachineCleared(machineStatus')]_vars

\* C35: while an apply command of the Configuration runs, the checkout it
\* was launched from is in place.
C35_WorkdirKeptWhileApplying ==
    \A t \in Tasks :
        pc[t] = "applying" => workdir = actual_commit_hash[t]

\* C36: while the Machine status names the other Configuration as applied,
\* the end of a delete reconcile of this Configuration leaves the Machine's
\* hasConfiguration, appliedConfiguration and appliedCommit as they are.
C36_DeleteSparesOtherConfiguration ==
    [][\A t \in Tasks :
          (/\ pc[t] # "idle" /\ pc'[t] = "idle"
           /\ deletion_timestamp[t]
           /\ Get(machineStatus, "appliedConfiguration", ConfigName)
                = OtherConfigName)
          => Restrict(machineStatus', {"hasConfiguration",
                 "appliedConfiguration", "appliedCommit"})
               = Restrict(machineStatus, {"hasConfiguration",
                 "appliedConfiguration", "appliedCommit"})]_vars

\* C37: whenever no reconcile of the Configuration is in flight and the
\* Machine status names it as applied, the Machine's appliedCommit is the
\* Configuration's appliedCommit.
C37_AppliedCommitsAgree ==
    (/\ \A t \in Tasks : pc[t] = "idle"
     /\ "appliedConfiguration" \in DOMAIN machineStatus
     /\ machineStatus.appliedConfiguration = ConfigName)
    => Get(machineStatus, "appliedCommit", NoCommit)
         = Get(cfgStatus, "appliedCommit", NoCommit)

\* The reconcile of task t started after an outage and has passed its
\* probe: the status it was called with is the one the availability gate
\* left (appliedCommit nulled, the files hash of the last application kept)
\* and nothing has patched it since; the Machine still records this
\* Configuration at the commit the checkout resolves to, and the files in
\* the spec hash to the recorded files hash.
ReachableAfterOutage(t) ==
    /\ pc[t] = "probing"
    /\ ~deletion_timestamp[t]
    /\ body[t] # NoBody
    /\ body[t].status = Restrict(cfgStatus, StatusRead)
    /\ "appliedCommit" \notin DOMAIN body[t].status
    /\ "additionalFilesHash" \in DOMAIN body[t].status
    /\ body[t].status.additionalFilesHash
         = get_additional_files_hash(body[t].spec.additionalFiles)
    /\ Get(cfgStatus, "conditions", <<>>)
         = Condition("False", "MissingCredentials")
    /\ "appliedConfiguration" \in DOMAIN machineStatus
    /\ machineStatus.appliedConfiguration = ConfigName
    /\ Get(machineStatus, "appliedCommit", NoCommit) = ClonedCommit

\* C38: a reconcile that finds the Machine reachable again after an outage,
\* with the resolved commit and the files hash those of the last
\* application, spawns no apply command.
C38_NoReapplyAfterOutage ==
    [][\A t \in Tasks : ReachableAfterOutage(t) => pc'[t] # "applying"]_vars

\* The Machine status still reports a configuration.
StaleMachineStatus(status) ==
    \/ Get(status, "hasConfiguration", FALSE)
    \/ "appliedConfiguration" \in DOMAIN status
    \/ "appliedCommit" \in DOMAIN status

\* C39: when the delete reconcile returns without error and the resource is
\* released, the Machine status reports no configuration.
C39_NoStaleMachineAfterRelease ==
    [][(~released /\ released') => ~StaleMachineStatus(machineStatus')]_vars

\* C40: once a reconcile has patched hasConfiguration=true, the Machine
\* status returns to hasConfiguration=false only in the step that ends a
\* delete reconcile; the patch of the Machine's create handler never does it.
C40_CreateHandlerKeepsApplication ==
    [][(/\ Get(machineStatus, "hasConfiguration", FALSE)
        /\ ~Get(machineStatus', "hasConfiguration", FALSE))
       => \E t \in Tasks : /\ pc[t] # "idle"
                           /\ pc'[t] = "idle"
                           /\ deletion_timestamp[t]]_vars

====
